---- MODULE Spec2Model ----
(***************************************************************************)
(* A model of convert_markdown_to_html (src/automate_blogger.py:376-696),  *)
(* the Markdown-to-styled-HTML pipeline.                                   *)
(*                                                                         *)
(* Text is a sequence of symbols.  A symbol is a one-character string of   *)
(* the source text, or a piece of a literal HTML template of the code      *)
(* (the inline style strings are abbreviated; a piece never contains a     *)
(* character that a later pattern of the pipeline looks for, which is why  *)
(* the ")" of the templates are kept as symbols of their own: the link     *)
(* pattern stops at them).  Every regular expression of the code is        *)
(* translated into a matcher that returns the match Python's backtracking  *)
(* search returns, and re.sub into the scan for leftmost non-overlapping   *)
(* matches.                                                                *)
(***************************************************************************)
EXTENDS Integers, Sequences, FiniteSets, TLC

(***************************************************************************)
(* Characters and character classes                                        *)
(***************************************************************************)
NL == "\n"
Whitespace == {" ", NL}
Digits == {"0", "1", "2", "3", "4", "5", "6", "7", "8", "9"}
Lower == {"a", "b", "c", "d", "g", "l", "m", "p", "t", "x", "y"}
Upper == {"A", "B", "C", "D", "E", "F", "G", "I", "K", "L", "M", "N", "O", "P", "Q", "R", "S", "T", "W", "Y"}
WordChars == Digits \cup Lower \cup Upper \cup {"_"}

IsSpace(c) == c \in Whitespace
IsWord(c) == c \in WordChars
IsDigit(c) == c \in Digits

(***************************************************************************)
(* String helpers (Python str methods)                                     *)
(***************************************************************************)
\* s.startswith(p, i-1)
StartsWithAt(s, i, p) ==
    /\ i >= 1
    /\ i + Len(p) - 1 <= Len(s)
    /\ SubSeq(s, i, i + Len(p) - 1) = p

StartsWith(s, p) == StartsWithAt(s, 1, p)

\* the least number of a set of numbers, d when the set is empty
First(S, d) == IF S = {} THEN d ELSE CHOOSE a \in S : \A b \in S : a <= b

\* s.find(p, i-1) + 1: the first index >= i where p occurs, 0 when there is none
FindFrom(s, p, i) == First({j \in i..Len(s) : StartsWithAt(s, j, p)}, 0)

\* the first index >= i holding the symbol c, Len(s)+1 when there is none
IndexOf(s, c, i) == First({j \in i..Len(s) : s[j] = c}, Len(s) + 1)

\* the end of the line that position i lies on: index of the next "\n", or Len(s)+1
LineEnd(s, i) == IndexOf(s, NL, i)

RECURSIVE LStripIdx(_, _)
LStripIdx(s, i) ==
    IF i > Len(s) THEN i
    ELSE IF IsSpace(s[i]) THEN LStripIdx(s, i + 1)
    ELSE i

RECURSIVE RStripIdx(_, _)
RStripIdx(s, j) ==
    IF j < 1 THEN j
    ELSE IF IsSpace(s[j]) THEN RStripIdx(s, j - 1)
    ELSE j

\* s.strip()
Strip(s) == SubSeq(s, LStripIdx(s, 1), RStripIdx(s, Len(s)))

\* s.replace(old, new): every non-overlapping occurrence, left to right
RECURSIVE ReplaceFrom(_, _, _, _)
ReplaceFrom(s, old, new, i) ==
    LET k == FindFrom(s, old, i)
    IN  IF k = 0 THEN SubSeq(s, i, Len(s))
        ELSE SubSeq(s, i, k - 1) \o new \o ReplaceFrom(s, old, new, k + Len(old))

Replace(s, old, new) == ReplaceFrom(s, old, new, 1)

\* s.split(sep) for a non-empty separator: a sequence of strings
RECURSIVE SplitFrom(_, _, _)
SplitFrom(s, sep, i) ==
    LET k == FindFrom(s, sep, i)
    IN  IF k = 0 THEN << SubSeq(s, i, Len(s)) >>
        ELSE << SubSeq(s, i, k - 1) >> \o SplitFrom(s, sep, k + Len(sep))

Split(s, sep) == SplitFrom(s, sep, 1)

\* s.split(sep, 1)
Split1(s, sep) ==
    LET k == FindFrom(s, sep, 1)
    IN  IF k = 0 THEN << s >>
        ELSE << SubSeq(s, 1, k - 1), SubSeq(s, k + Len(sep), Len(s)) >>

\* sep.join(parts)
RECURSIVE Join(_, _)
Join(parts, sep) ==
    IF Len(parts) = 0 THEN << >>
    ELSE IF Len(parts) = 1 THEN parts[1]
    ELSE parts[1] \o sep \o Join(Tail(parts), sep)

\* ''.join(parts)
RECURSIVE Concat(_)
Concat(parts) ==
    IF Len(parts) = 0 THEN << >> ELSE parts[1] \o Concat(Tail(parts))

\* [x for x in seq if keep[x]] for a sequence and a set of kept indices
RECURSIVE FilterIdx(_, _, _)
FilterIdx(seq, keep, i) ==
    IF i > Len(seq) THEN << >>
    ELSE (IF i \in keep THEN << seq[i] >> ELSE << >>) \o FilterIdx(seq, keep, i + 1)

\* the number of occurrences of the symbol c in s
RECURSIVE Count(_, _)
Count(s, c) ==
    IF Len(s) = 0 THEN 0
    ELSE (IF s[1] = c THEN 1 ELSE 0) + Count(Tail(s), c)

(***************************************************************************)
(* re.sub: the leftmost non-overlapping matches of a pattern.  m[i] is the *)
(* index just after the match that starts at i, 0 when the pattern does    *)
(* not match at i.  No pattern of the pipeline matches the empty string.   *)
(***************************************************************************)
RECURSIVE Spans(_, _, _)
Spans(m, i, n) ==
    LET j == First({k \in i..n : m[k] > 0}, 0)
    IN  IF j = 0 THEN << >>
        ELSE << [s |-> j, e |-> m[j]] >> \o Spans(m, m[j], n)

\* the text with span k replaced by repl[k]
RECURSIVE SpliceFrom(_, _, _, _, _)
SpliceFrom(s, spans, repl, k, i) ==
    IF k > Len(spans) THEN SubSeq(s, i, Len(s))
    ELSE SubSeq(s, i, spans[k].s - 1) \o repl[k]
         \o SpliceFrom(s, spans, repl, k + 1, spans[k].e)

Splice(s, spans, repl) == SpliceFrom(s, spans, repl, 1, 1)

(***************************************************************************)
(* The literal HTML of the code, cut into symbols: one per tag and per run *)
(* of text between tags, with every ")" a symbol of its own.  A character  *)
(* outside ASCII is written U+ and its code point.                         *)
(***************************************************************************)
\* the literal HTML of convert_code (lines 404-408)
CodeTpl ==
    \* lines 404-405: code_html up to the escaped code
    [ CodeHtmlOpen |->
          << "<div style=\"background: #1e1e1e; padding: 25px; border-radius: 4px; margin: 25px 0; overflow-x: auto; box-shadow: 0 2px 8px rgba(0,0,0,0.2",
          ")", ";\">",
          "<div style=\"color: #d4d4d4; font-family: 'Consolas', 'Monaco', 'Courier New', monospace; font-size: 14px; line-height: 1.6; white-space: pre;\">" >>,
    \* lines 405-406: code_html after the escaped code
      CodeHtmlClose |->
          << "</div>", "</div>" >>,
    \* line 409: the placeholder up to the counter, character by character
      PlaceholderOpen |->
          << "<", "!", "-", "-", "C", "O", "D", "E", "B", "L", "O", "C", "K" >>,
    \* line 409: the placeholder after the counter, character by character
      PlaceholderClose |->
          << "-", "-", ">" >> ]

\* the literal HTML of the four info boxes (lines 420-441)
InfoTpl ==
    \* line 421: the template up to group 1
    [ InfoOpenTIP |->
          << "<div style=\"background: linear-gradient(135deg, #fff9e6 0%, #fff4d1 100%", ")",
          "; border-left: 5px solid #ffcd04; padding: 20px; margin: 25px 0; border-radius: 4px; box-shadow: 0 2px 6px rgba(255, 205, 4, 0.15",
          ")", ";\">",
          "<div style=\"display: flex; align-items: flex-start; gap: 15px; flex-wrap: wrap;\">",
          "<div style=\"font-size: 28px; flex-shrink: 0;\">", "U+1F4A1", "</div>",
          "<div style=\"flex: 1; min-width: 200px;\">",
          "<strong style=\"color: #253137; font-size: 18px; display: block; margin-bottom: 8px; font-weight: 600;\">",
          "Pro Tip", "</strong>", "<p style=\"margin: 0; color: #656565; line-height: 1.7;\">" >>,
    \* line 421: the template after group 1
      InfoCloseTIP |->
          << "</p>", "</div>", "</div>", "</div>" >>,
    \* line 428: the template up to group 1
      InfoOpenWARNING |->
          << "<div style=\"background: linear-gradient(135deg, #fff3e0 0%, #ffe0b2 100%", ")",
          "; border-left: 5px solid #ff9800; padding: 20px; margin: 25px 0; border-radius: 4px; box-shadow: 0 2px 6px rgba(255, 152, 0, 0.15",
          ")", ";\">",
          "<div style=\"display: flex; align-items: flex-start; gap: 15px; flex-wrap: wrap;\">",
          "<div style=\"font-size: 28px; flex-shrink: 0;\">", "U+26A0U+FE0F", "</div>",
          "<div style=\"flex: 1; min-width: 200px;\">",
          "<strong style=\"color: #e65100; font-size: 18px; display: block; margin-bottom: 8px; font-weight: 600;\">",
          "Warning", "</strong>", "<p style=\"margin: 0; color: #656565; line-height: 1.7;\">" >>,
    \* line 428: the template after group 1
      InfoCloseWARNING |->
          << "</p>", "</div>", "</div>", "</div>" >>,
    \* line 435: the template up to group 1
      InfoOpenBEST_PRACTICE |->
          << "<div style=\"background: linear-gradient(135deg, #e8f5e9 0%, #c8e6c9 100%", ")",
          "; border-left: 5px solid #4CAF50; padding: 20px; margin: 25px 0; border-radius: 4px; box-shadow: 0 2px 6px rgba(76, 175, 80, 0.15",
          ")", ";\">",
          "<div style=\"display: flex; align-items: flex-start; gap: 15px; flex-wrap: wrap;\">",
          "<div style=\"font-size: 28px; flex-shrink: 0;\">", "U+2705", "</div>",
          "<div style=\"flex: 1; min-width: 200px;\">",
          "<strong style=\"color: #2e7d32; font-size: 18px; display: block; margin-bottom: 8px; font-weight: 600;\">",
          "Best Practice", "</strong>", "<p style=\"margin: 0; color: #656565; line-height: 1.7;\">" >>,
    \* line 435: the template after group 1
      InfoCloseBEST_PRACTICE |->
          << "</p>", "</div>", "</div>", "</div>" >>,
    \* line 442: the template up to group 1
      InfoOpenKEY_TAKEAWAY |->
          << "<div style=\"background: linear-gradient(135deg, #e8eaf1 0%, #d4d8e6 100%", ")",
          "; border-left: 5px solid #253137; padding: 20px; margin: 25px 0; border-radius: 4px; box-shadow: 0 2px 6px rgba(37, 49, 55, 0.15",
          ")", ";\">",
          "<div style=\"display: flex; align-items: flex-start; gap: 15px; flex-wrap: wrap;\">",
          "<div style=\"font-size: 28px; flex-shrink: 0;\">", "U+1F511", "</div>",
          "<div style=\"flex: 1; min-width: 200px;\">",
          "<strong style=\"color: #253137; font-size: 18px; display: block; margin-bottom: 8px; font-weight: 600;\">",
          "Key Takeaway", "</strong>", "<p style=\"margin: 0; color: #656565; line-height: 1.7;\">" >>,
    \* line 442: the template after group 1
      InfoCloseKEY_TAKEAWAY |->
          << "</p>", "</div>", "</div>", "</div>" >> ]

\* the literal HTML of convert_table (lines 464-486)
TableTpl ==
    \* lines 464-468
    [ TableOpen |->
          << "<div style=\"overflow-x: auto; margin: 25px 0; box-shadow: 0 2px 8px rgba(0,0,0,0.1", ")",
          "; border-radius: 4px;\">",
          "<table style=\"width: 100%; border-collapse: collapse; background: white; border-radius: 4px; overflow: hidden;\">",
          "<thead>", "<tr style=\"background: linear-gradient(135deg, #ffcd04 0%, #ffc107 100%", ")",
          "; color: #253137;\">" >>,
    \* lines 470-471: th of a column that is not the last
      ThOpenInner |->
          << "<th style=\"padding: 18px; text-align: left; font-weight: 600; font-size: 15px; border-right: 1px solid rgba(37,49,55,0.1",
          ")", ";\">" >>,
    \* lines 470-471: th of the last column
      ThOpenLast |->
          << "<th style=\"padding: 18px; text-align: left; font-weight: 600; font-size: 15px;\">" >>,
    \* line 471
      ThClose |->
          << "</th>" >>,
    \* lines 472, 475
      TableMid |->
          << "</tr>", "</thead>", "<tbody>" >>,
    \* lines 477-478: idx % 2 = 0
      TrOpenEven |->
          << "<tr style=\"border-bottom: 1px solid #f2f2f6;\">" >>,
    \* lines 477-478: idx % 2 = 1
      TrOpenOdd |->
          << "<tr style=\"border-bottom: 1px solid #f2f2f6; background: #fafafa;\">" >>,
    \* lines 480-484: i = 0, not the last cell
      TdOpenFirstInner |->
          << "<td style=\"padding: 15px; font-weight: 500; color: #253137; border-right: 1px solid #f2f2f6;\">" >>,
    \* lines 480-484: i = 0, the last cell
      TdOpenFirstLast |->
          << "<td style=\"padding: 15px; font-weight: 500; color: #253137;\">" >>,
    \* lines 480-484: i > 0, not the last cell
      TdOpenOtherInner |->
          << "<td style=\"padding: 15px; text-align: center; color: #656565; border-right: 1px solid #f2f2f6;\">" >>,
    \* lines 480-484: i > 0, the last cell
      TdOpenOtherLast |->
          << "<td style=\"padding: 15px; text-align: center; color: #656565;\">" >>,
    \* line 484
      TdClose |->
          << "</td>" >>,
    \* line 485
      TrClose |->
          << "</tr>" >>,
    \* line 486
      TableClose |->
          << "</tbody>", "</table>", "</div>" >> ]

\* the literal HTML of convert_proscons (lines 500-521)
ProsConsTpl ==
    \* line 500
    [ GridOpen |->
          << "<div style=\"display: grid; grid-template-columns: repeat(auto-fit, minmax(280px, 1fr",
          ")", ")", "; gap: 20px; margin: 25px 0;\">" >>,
    \* lines 503-505
      ProsColumnOpen |->
          << "<div style=\"background: linear-gradient(135deg, #e8f5e9 0%, #c8e6c9 100%", ")",
          "; border-radius: 4px; padding: 25px; box-shadow: 0 2px 8px rgba(76, 175, 80, 0.15", ")",
          ";\">",
          "<h3 style=\"color: #2e7d32; font-size: 20px; margin: 0 0 20px 0; display: flex; align-items: center; gap: 10px;\">",
          "<span style=\"font-size: 24px;\">", "U+2705", "</span>", " Advantages", "</h3>",
          "<ul style=\"list-style: none; padding: 0; margin: 0;\">" >>,
    \* lines 507-508: not the last item
      ProsLiOpenInner |->
          << "<li style=\"padding: 10px 0; border-bottom: 1px solid rgba(46, 125, 50, 0.2", ")",
          "; display: flex; align-items: flex-start; gap: 10px;\">",
          "<span style=\"color: #4CAF50; font-size: 18px; font-weight: bold;\">", "U+2713", "</span>",
          "<span style=\"color: #656565; line-height: 1.6;\">" >>,
    \* lines 507-508: the last item
      ProsLiOpenLast |->
          << "<li style=\"padding: 10px 0; display: flex; align-items: flex-start; gap: 10px;\">",
          "<span style=\"color: #4CAF50; font-size: 18px; font-weight: bold;\">", "U+2713", "</span>",
          "<span style=\"color: #656565; line-height: 1.6;\">" >>,
    \* line 508
      ProsLiClose |->
          << "</span>", "</li>" >>,
    \* lines 509, 518
      ColumnClose |->
          << "</ul>", "</div>" >>,
    \* lines 512-514
      ConsColumnOpen |->
          << "<div style=\"background: linear-gradient(135deg, #ffebee 0%, #ffcdd2 100%", ")",
          "; border-radius: 4px; padding: 25px; box-shadow: 0 2px 8px rgba(244, 67, 54, 0.15", ")",
          ";\">",
          "<h3 style=\"color: #c62828; font-size: 20px; margin: 0 0 20px 0; display: flex; align-items: center; gap: 10px;\">",
          "<span style=\"font-size: 24px;\">", "U+274C", "</span>", " Disadvantages", "</h3>",
          "<ul style=\"list-style: none; padding: 0; margin: 0;\">" >>,
    \* lines 516-517: not the last item
      ConsLiOpenInner |->
          << "<li style=\"padding: 10px 0; border-bottom: 1px solid rgba(198, 40, 40, 0.2", ")",
          "; display: flex; align-items: flex-start; gap: 10px;\">",
          "<span style=\"color: #f44336; font-size: 18px; font-weight: bold;\">", "U+2717", "</span>",
          "<span style=\"color: #656565; line-height: 1.6;\">" >>,
    \* lines 516-517: the last item
      ConsLiOpenLast |->
          << "<li style=\"padding: 10px 0; display: flex; align-items: flex-start; gap: 10px;\">",
          "<span style=\"color: #f44336; font-size: 18px; font-weight: bold;\">", "U+2717", "</span>",
          "<span style=\"color: #656565; line-height: 1.6;\">" >>,
    \* line 517
      ConsLiClose |->
          << "</span>", "</li>" >>,
    \* line 520
      GridClose |->
          << "</div>" >> ]

\* the literal HTML of convert_faq (lines 537-551)
FaqTpl ==
    \* line 537
    [ FaqOpen |->
          << "<div style=\"margin: 25px 0;\">" >>,
    \* lines 539-546: colour 0, not the last card
      FaqCardOpen0Inner |->
          << "<div style=\"background: white; border: 2px solid #f2f2f6; border-radius: 4px; padding: 20px; margin-bottom: 15px; box-shadow: 0 2px 4px rgba(0,0,0,0.03",
          ")", ";\">",
          "<div style=\"display: flex; align-items: flex-start; gap: 15px; flex-wrap: wrap;\">",
          "<div style=\"font-size: 24px; color: #ffcd04; flex-shrink: 0;\">", "U+2753", "</div>",
          "<div style=\"flex: 1; min-width: 200px;\">",
          "<strong style=\"color: #253137; font-size: 18px; display: block; margin-bottom: 10px; font-weight: 600;\">" >>,
    \* lines 539-546: colour 0, the last card
      FaqCardOpen0Last |->
          << "<div style=\"background: white; border: 2px solid #f2f2f6; border-radius: 4px; padding: 20px; box-shadow: 0 2px 4px rgba(0,0,0,0.03",
          ")", ";\">",
          "<div style=\"display: flex; align-items: flex-start; gap: 15px; flex-wrap: wrap;\">",
          "<div style=\"font-size: 24px; color: #ffcd04; flex-shrink: 0;\">", "U+2753", "</div>",
          "<div style=\"flex: 1; min-width: 200px;\">",
          "<strong style=\"color: #253137; font-size: 18px; display: block; margin-bottom: 10px; font-weight: 600;\">" >>,
    \* lines 539-546: colour 1, not the last card
      FaqCardOpen1Inner |->
          << "<div style=\"background: white; border: 2px solid #f2f2f6; border-radius: 4px; padding: 20px; margin-bottom: 15px; box-shadow: 0 2px 4px rgba(0,0,0,0.03",
          ")", ";\">",
          "<div style=\"display: flex; align-items: flex-start; gap: 15px; flex-wrap: wrap;\">",
          "<div style=\"font-size: 24px; color: #4CAF50; flex-shrink: 0;\">", "U+2753", "</div>",
          "<div style=\"flex: 1; min-width: 200px;\">",
          "<strong style=\"color: #253137; font-size: 18px; display: block; margin-bottom: 10px; font-weight: 600;\">" >>,
    \* lines 539-546: colour 1, the last card
      FaqCardOpen1Last |->
          << "<div style=\"background: white; border: 2px solid #f2f2f6; border-radius: 4px; padding: 20px; box-shadow: 0 2px 4px rgba(0,0,0,0.03",
          ")", ";\">",
          "<div style=\"display: flex; align-items: flex-start; gap: 15px; flex-wrap: wrap;\">",
          "<div style=\"font-size: 24px; color: #4CAF50; flex-shrink: 0;\">", "U+2753", "</div>",
          "<div style=\"flex: 1; min-width: 200px;\">",
          "<strong style=\"color: #253137; font-size: 18px; display: block; margin-bottom: 10px; font-weight: 600;\">" >>,
    \* lines 539-546: colour 2, not the last card
      FaqCardOpen2Inner |->
          << "<div style=\"background: white; border: 2px solid #f2f2f6; border-radius: 4px; padding: 20px; margin-bottom: 15px; box-shadow: 0 2px 4px rgba(0,0,0,0.03",
          ")", ";\">",
          "<div style=\"display: flex; align-items: flex-start; gap: 15px; flex-wrap: wrap;\">",
          "<div style=\"font-size: 24px; color: #253137; flex-shrink: 0;\">", "U+2753", "</div>",
          "<div style=\"flex: 1; min-width: 200px;\">",
          "<strong style=\"color: #253137; font-size: 18px; display: block; margin-bottom: 10px; font-weight: 600;\">" >>,
    \* lines 539-546: colour 2, the last card
      FaqCardOpen2Last |->
          << "<div style=\"background: white; border: 2px solid #f2f2f6; border-radius: 4px; padding: 20px; box-shadow: 0 2px 4px rgba(0,0,0,0.03",
          ")", ";\">",
          "<div style=\"display: flex; align-items: flex-start; gap: 15px; flex-wrap: wrap;\">",
          "<div style=\"font-size: 24px; color: #253137; flex-shrink: 0;\">", "U+2753", "</div>",
          "<div style=\"flex: 1; min-width: 200px;\">",
          "<strong style=\"color: #253137; font-size: 18px; display: block; margin-bottom: 10px; font-weight: 600;\">" >>,
    \* lines 546-547
      FaqCardMid |->
          << "</strong>", "<p style=\"color: #656565; line-height: 1.7; margin: 0;\">" >>,
    \* lines 547-548
      FaqCardClose |->
          << "</p>", "</div>", "</div>", "</div>" >>,
    \* line 550
      FaqClose |->
          << "</div>" >> ]

\* the literal HTML of convert_timeline (lines 564-586)
TimelineTpl ==
    \* lines 565-566
    [ TimelineOpen |->
          << "<div style=\"position: relative; padding: 30px 0 30px 40px; margin: 25px 0;\">",
          "<div style=\"position: absolute; left: 15px; top: 0; bottom: 0; width: 3px; background: linear-gradient(180deg, #ffcd04 0%, #4CAF50 50%, #253137 100%",
          ")", ";\">", "</div>" >>,
    \* lines 569-581: colour 0, not the last entry
      TimelineEntryOpen0Inner |->
          << "<div style=\"position: relative; margin-bottom: 40px;\">",
          "<div style=\"position: absolute; left: -32px; width: 20px; height: 20px; background: #ffcd04; border: 4px solid white; border-radius: 50%; box-shadow: 0 0 0 3px #fff9e6;\">",
          "</div>",
          "<div style=\"background: white; padding: 20px; border-radius: 4px; border: 2px solid #fff9e6; box-shadow: 0 2px 6px rgba(0,0,0,0.05",
          ")", ";\">",
          "<strong style=\"color: #ffcd04; font-size: 18px; display: block; margin-bottom: 5px;\">" >>,
    \* lines 569-581: colour 0, the last entry
      TimelineEntryOpen0Last |->
          << "<div style=\"position: relative;\">",
          "<div style=\"position: absolute; left: -32px; width: 20px; height: 20px; background: #ffcd04; border: 4px solid white; border-radius: 50%; box-shadow: 0 0 0 3px #fff9e6;\">",
          "</div>",
          "<div style=\"background: white; padding: 20px; border-radius: 4px; border: 2px solid #fff9e6; box-shadow: 0 2px 6px rgba(0,0,0,0.05",
          ")", ";\">",
          "<strong style=\"color: #ffcd04; font-size: 18px; display: block; margin-bottom: 5px;\">" >>,
    \* lines 569-581: colour 1, not the last entry
      TimelineEntryOpen1Inner |->
          << "<div style=\"position: relative; margin-bottom: 40px;\">",
          "<div style=\"position: absolute; left: -32px; width: 20px; height: 20px; background: #4CAF50; border: 4px solid white; border-radius: 50%; box-shadow: 0 0 0 3px #e8f5e9;\">",
          "</div>",
          "<div style=\"background: white; padding: 20px; border-radius: 4px; border: 2px solid #e8f5e9; box-shadow: 0 2px 6px rgba(0,0,0,0.05",
          ")", ";\">",
          "<strong style=\"color: #4CAF50; font-size: 18px; display: block; margin-bottom: 5px;\">" >>,
    \* lines 569-581: colour 1, the last entry
      TimelineEntryOpen1Last |->
          << "<div style=\"position: relative;\">",
          "<div style=\"position: absolute; left: -32px; width: 20px; height: 20px; background: #4CAF50; border: 4px solid white; border-radius: 50%; box-shadow: 0 0 0 3px #e8f5e9;\">",
          "</div>",
          "<div style=\"background: white; padding: 20px; border-radius: 4px; border: 2px solid #e8f5e9; box-shadow: 0 2px 6px rgba(0,0,0,0.05",
          ")", ";\">",
          "<strong style=\"color: #4CAF50; font-size: 18px; display: block; margin-bottom: 5px;\">" >>,
    \* lines 569-581: colour 2, not the last entry
      TimelineEntryOpen2Inner |->
          << "<div style=\"position: relative; margin-bottom: 40px;\">",
          "<div style=\"position: absolute; left: -32px; width: 20px; height: 20px; background: #253137; border: 4px solid white; border-radius: 50%; box-shadow: 0 0 0 3px #e8eaf1;\">",
          "</div>",
          "<div style=\"background: white; padding: 20px; border-radius: 4px; border: 2px solid #e8eaf1; box-shadow: 0 2px 6px rgba(0,0,0,0.05",
          ")", ";\">",
          "<strong style=\"color: #253137; font-size: 18px; display: block; margin-bottom: 5px;\">" >>,
    \* lines 569-581: colour 2, the last entry
      TimelineEntryOpen2Last |->
          << "<div style=\"position: relative;\">",
          "<div style=\"position: absolute; left: -32px; width: 20px; height: 20px; background: #253137; border: 4px solid white; border-radius: 50%; box-shadow: 0 0 0 3px #e8eaf1;\">",
          "</div>",
          "<div style=\"background: white; padding: 20px; border-radius: 4px; border: 2px solid #e8eaf1; box-shadow: 0 2px 6px rgba(0,0,0,0.05",
          ")", ";\">",
          "<strong style=\"color: #253137; font-size: 18px; display: block; margin-bottom: 5px;\">" >>,
    \* line 581
      TimelineTitleClose |->
          << "</strong>" >>,
    \* line 583
      TimelineDescOpen |->
          << "<p style=\"color: #656565; margin: 0; line-height: 1.6;\">" >>,
    \* line 583
      TimelineDescClose |->
          << "</p>" >>,
    \* line 584
      TimelineEntryClose |->
          << "</div>", "</div>" >>,
    \* line 586
      TimelineClose |->
          << "</div>" >> ]

\* the literal HTML of the headings (lines 595-600)
HeadingTpl ==
    \* line 595
    [ H6Open |->
          << "<h6 style=\"color: #34495e; font-size: 16px; font-weight: 600; margin: 20px 0 12px 0; line-height: 1.4;\">" >>,
    \* line 595
      H6Close |->
          << "</h6>" >>,
    \* line 596
      H5Open |->
          << "<h5 style=\"color: #2c3e50; font-size: 18px; font-weight: 600; margin: 22px 0 13px 0; line-height: 1.4;\">" >>,
    \* line 596
      H5Close |->
          << "</h5>" >>,
    \* line 597
      H4Open |->
          << "<h4 style=\"color: #2c3e50; font-size: 20px; font-weight: 600; margin: 25px 0 14px 0; line-height: 1.4; border-left: 3px solid #9b59b6; padding-left: 12px;\">" >>,
    \* line 597
      H4Close |->
          << "</h4>" >>,
    \* line 598
      H3Open |->
          << "<h3 style=\"color: #2c3e50; font-size: 22px; font-weight: 600; margin: 28px 0 15px 0; line-height: 1.4; border-left: 4px solid #3498db; padding-left: 15px;\">" >>,
    \* line 598
      H3Close |->
          << "</h3>" >>,
    \* line 599
      H2Open |->
          << "<h2 style=\"color: #1a1a1a; font-size: 28px; font-weight: 700; margin: 35px 0 20px 0; padding-bottom: 12px; border-bottom: 3px solid #4CAF50; line-height: 1.3;\">" >>,
    \* line 599
      H2Close |->
          << "</h2>" >>,
    \* line 600
      H1Open |->
          << "<h1 style=\"color: #1a1a1a; font-size: 32px; font-weight: 800; margin: 40px 0 25px 0;\">" >>,
    \* line 600
      H1Close |->
          << "</h1>" >> ]

\* the literal HTML of labels, bold, italic and links (lines 604-616)
InlineTpl ==
    \* lines 604-605
    [ LabelOpen |->
          << "<strong style=\"color: #2196F3; font-weight: 700; display: block; margin-top: 20px; margin-bottom: 8px; font-size: 18px;\">" >>,
    \* lines 604-605
      LabelClose |->
          << ":", "</strong>" >>,
    \* lines 608-609
      StrongOpen |->
          << "<strong style=\"color: #2196F3; font-weight: 600;\">" >>,
    \* lines 608-609
      StrongClose |->
          << "</strong>" >>,
    \* lines 612-613
      EmOpen |->
          << "<em style=\"color: #555;\">" >>,
    \* lines 612-613
      EmClose |->
          << "</em>" >>,
    \* line 616: up to group 2
      LinkOpen |->
          << "<a href=\"" >>,
    \* line 616: between group 2 and group 1
      LinkMid |->
          << "\" style=\"color: #3498db; text-decoration: none; border-bottom: 2px solid #3498db;\">" >>,
    \* line 616: after group 1
      LinkClose |->
          << "</a>" >> ]

\* the literal HTML of the list scanner (lines 631-673)
ListTpl ==
    \* line 636
    [ UlOpen |->
          << "<ul style=\"margin: 20px 0; padding-left: 35px; line-height: 1.9;\">" >>,
    \* lines 646, 661, 671
      UlClose |->
          << "</ul>" >>,
    \* line 640
      BulletLiOpen |->
          << "<li style=\"margin: 10px 0; color: #444; font-size: 17px; list-style-type: disc;\">" >>,
    \* line 640
      BulletLiClose |->
          << "</li>" >>,
    \* line 651
      OlOpen |->
          << "<ol style=\"margin: 20px 0; padding-left: 35px; line-height: 1.9;\">" >>,
    \* lines 631, 664, 673
      OlClose |->
          << "</ol>" >>,
    \* line 656
      NumberedLiOpen |->
          << "<li style=\"margin: 10px 0; color: #444; font-size: 17px;\">" >>,
    \* line 656
      NumberedLiClose |->
          << "</li>" >> ]

\* the literal HTML of the paragraphs and of the container (lines 684-696)
PageTpl ==
    \* line 684
    [ ParaOpen |->
          << "<p style=\"line-height: 1.9; margin: 18px 0; color: #333; font-size: 17px; text-align: justify;\">" >>,
    \* line 684
      ParaClose |->
          << "</p>" >>,
    \* line 696
      ContainerOpen |->
          << "<div style=\"font-family: -apple-system, BlinkMacSystemFont, 'Segoe UI', Roboto, Oxygen, Ubuntu, Cantarell, sans-serif; max-width: 100%; padding: 0;\">" >>,
    \* line 696
      ContainerClose |->
          << "</div>" >> ]
\* the symbols that begin with the character "<"
LtSyms ==
    {"<",
     "</a>",
     "</div>",
     "</em>",
     "</h1>",
     "</h2>",
     "</h3>",
     "</h4>",
     "</h5>",
     "</h6>",
     "</li>",
     "</ol>",
     "</p>",
     "</span>",
     "</strong>",
     "</table>",
     "</tbody>",
     "</td>",
     "</th>",
     "</thead>",
     "</tr>",
     "</ul>",
     "<a href=\"",
     "<div style=\"background: #1e1e1e; padding: 25px; border-radius: 4px; margin: 25px 0; overflow-x: auto; box-shadow: 0 2px 8px rgba(0,0,0,0.2",
     "<div style=\"background: linear-gradient(135deg, #e8eaf1 0%, #d4d8e6 100%",
     "<div style=\"background: linear-gradient(135deg, #e8f5e9 0%, #c8e6c9 100%",
     "<div style=\"background: linear-gradient(135deg, #ffebee 0%, #ffcdd2 100%",
     "<div style=\"background: linear-gradient(135deg, #fff3e0 0%, #ffe0b2 100%",
     "<div style=\"background: linear-gradient(135deg, #fff9e6 0%, #fff4d1 100%",
     "<div style=\"background: white; border: 2px solid #f2f2f6; border-radius: 4px; padding: 20px; box-shadow: 0 2px 4px rgba(0,0,0,0.03",
     "<div style=\"background: white; border: 2px solid #f2f2f6; border-radius: 4px; padding: 20px; margin-bottom: 15px; box-shadow: 0 2px 4px rgba(0,0,0,0.03",
     "<div style=\"background: white; padding: 20px; border-radius: 4px; border: 2px solid #e8eaf1; box-shadow: 0 2px 6px rgba(0,0,0,0.05",
     "<div style=\"background: white; padding: 20px; border-radius: 4px; border: 2px solid #e8f5e9; box-shadow: 0 2px 6px rgba(0,0,0,0.05",
     "<div style=\"background: white; padding: 20px; border-radius: 4px; border: 2px solid #fff9e6; box-shadow: 0 2px 6px rgba(0,0,0,0.05",
     "<div style=\"color: #d4d4d4; font-family: 'Consolas', 'Monaco', 'Courier New', monospace; font-size: 14px; line-height: 1.6; white-space: pre;\">",
     "<div style=\"display: flex; align-items: flex-start; gap: 15px; flex-wrap: wrap;\">",
     "<div style=\"display: grid; grid-template-columns: repeat(auto-fit, minmax(280px, 1fr",
     "<div style=\"flex: 1; min-width: 200px;\">",
     "<div style=\"font-family: -apple-system, BlinkMacSystemFont, 'Segoe UI', Roboto, Oxygen, Ubuntu, Cantarell, sans-serif; max-width: 100%; padding: 0;\">",
     "<div style=\"font-size: 24px; color: #253137; flex-shrink: 0;\">",
     "<div style=\"font-size: 24px; color: #4CAF50; flex-shrink: 0;\">",
     "<div style=\"font-size: 24px; color: #ffcd04; flex-shrink: 0;\">",
     "<div style=\"font-size: 28px; flex-shrink: 0;\">",
     "<div style=\"margin: 25px 0;\">",
     "<div style=\"overflow-x: auto; margin: 25px 0; box-shadow: 0 2px 8px rgba(0,0,0,0.1",
     "<div style=\"position: absolute; left: -32px; width: 20px; height: 20px; background: #253137; border: 4px solid white; border-radius: 50%; box-shadow: 0 0 0 3px #e8eaf1;\">",
     "<div style=\"position: absolute; left: -32px; width: 20px; height: 20px; background: #4CAF50; border: 4px solid white; border-radius: 50%; box-shadow: 0 0 0 3px #e8f5e9;\">",
     "<div style=\"position: absolute; left: -32px; width: 20px; height: 20px; background: #ffcd04; border: 4px solid white; border-radius: 50%; box-shadow: 0 0 0 3px #fff9e6;\">",
     "<div style=\"position: absolute; left: 15px; top: 0; bottom: 0; width: 3px; background: linear-gradient(180deg, #ffcd04 0%, #4CAF50 50%, #253137 100%",
     "<div style=\"position: relative; margin-bottom: 40px;\">",
     "<div style=\"position: relative; padding: 30px 0 30px 40px; margin: 25px 0;\">",
     "<div style=\"position: relative;\">",
     "<em style=\"color: #555;\">",
     "<h1 style=\"color: #1a1a1a; font-size: 32px; font-weight: 800; margin: 40px 0 25px 0;\">",
     "<h2 style=\"color: #1a1a1a; font-size: 28px; font-weight: 700; margin: 35px 0 20px 0; padding-bottom: 12px; border-bottom: 3px solid #4CAF50; line-height: 1.3;\">",
     "<h3 style=\"color: #2c3e50; font-size: 22px; font-weight: 600; margin: 28px 0 15px 0; line-height: 1.4; border-left: 4px solid #3498db; padding-left: 15px;\">",
     "<h3 style=\"color: #2e7d32; font-size: 20px; margin: 0 0 20px 0; display: flex; align-items: center; gap: 10px;\">",
     "<h3 style=\"color: #c62828; font-size: 20px; margin: 0 0 20px 0; display: flex; align-items: center; gap: 10px;\">",
     "<h4 style=\"color: #2c3e50; font-size: 20px; font-weight: 600; margin: 25px 0 14px 0; line-height: 1.4; border-left: 3px solid #9b59b6; padding-left: 12px;\">",
     "<h5 style=\"color: #2c3e50; font-size: 18px; font-weight: 600; margin: 22px 0 13px 0; line-height: 1.4;\">",
     "<h6 style=\"color: #34495e; font-size: 16px; font-weight: 600; margin: 20px 0 12px 0; line-height: 1.4;\">",
     "<li style=\"margin: 10px 0; color: #444; font-size: 17px; list-style-type: disc;\">",
     "<li style=\"margin: 10px 0; color: #444; font-size: 17px;\">",
     "<li style=\"padding: 10px 0; border-bottom: 1px solid rgba(198, 40, 40, 0.2",
     "<li style=\"padding: 10px 0; border-bottom: 1px solid rgba(46, 125, 50, 0.2",
     "<li style=\"padding: 10px 0; display: flex; align-items: flex-start; gap: 10px;\">",
     "<ol style=\"margin: 20px 0; padding-left: 35px; line-height: 1.9;\">",
     "<p style=\"color: #656565; line-height: 1.7; margin: 0;\">",
     "<p style=\"color: #656565; margin: 0; line-height: 1.6;\">",
     "<p style=\"line-height: 1.9; margin: 18px 0; color: #333; font-size: 17px; text-align: justify;\">",
     "<p style=\"margin: 0; color: #656565; line-height: 1.7;\">",
     "<span style=\"color: #4CAF50; font-size: 18px; font-weight: bold;\">",
     "<span style=\"color: #656565; line-height: 1.6;\">",
     "<span style=\"color: #f44336; font-size: 18px; font-weight: bold;\">",
     "<span style=\"font-size: 24px;\">",
     "<strong style=\"color: #2196F3; font-weight: 600;\">",
     "<strong style=\"color: #2196F3; font-weight: 700; display: block; margin-top: 20px; margin-bottom: 8px; font-size: 18px;\">",
     "<strong style=\"color: #253137; font-size: 18px; display: block; margin-bottom: 10px; font-weight: 600;\">",
     "<strong style=\"color: #253137; font-size: 18px; display: block; margin-bottom: 5px;\">",
     "<strong style=\"color: #253137; font-size: 18px; display: block; margin-bottom: 8px; font-weight: 600;\">",
     "<strong style=\"color: #2e7d32; font-size: 18px; display: block; margin-bottom: 8px; font-weight: 600;\">",
     "<strong style=\"color: #4CAF50; font-size: 18px; display: block; margin-bottom: 5px;\">",
     "<strong style=\"color: #e65100; font-size: 18px; display: block; margin-bottom: 8px; font-weight: 600;\">",
     "<strong style=\"color: #ffcd04; font-size: 18px; display: block; margin-bottom: 5px;\">",
     "<table style=\"width: 100%; border-collapse: collapse; background: white; border-radius: 4px; overflow: hidden;\">",
     "<tbody>",
     "<td style=\"padding: 15px; font-weight: 500; color: #253137; border-right: 1px solid #f2f2f6;\">",
     "<td style=\"padding: 15px; font-weight: 500; color: #253137;\">",
     "<td style=\"padding: 15px; text-align: center; color: #656565; border-right: 1px solid #f2f2f6;\">",
     "<td style=\"padding: 15px; text-align: center; color: #656565;\">",
     "<th style=\"padding: 18px; text-align: left; font-weight: 600; font-size: 15px; border-right: 1px solid rgba(37,49,55,0.1",
     "<th style=\"padding: 18px; text-align: left; font-weight: 600; font-size: 15px;\">",
     "<thead>",
     "<tr style=\"background: linear-gradient(135deg, #ffcd04 0%, #ffc107 100%",
     "<tr style=\"border-bottom: 1px solid #f2f2f6; background: #fafafa;\">",
     "<tr style=\"border-bottom: 1px solid #f2f2f6;\">",
     "<ul style=\"list-style: none; padding: 0; margin: 0;\">",
     "<ul style=\"margin: 20px 0; padding-left: 35px; line-height: 1.9;\">"}

(***************************************************************************)
(* Stage 1: code fences (lines 391-415)                                    *)
(***************************************************************************)
\* the backquote character (a TLA+ string cannot hold one)
BQ == "BQ"
Fence == << BQ, BQ, BQ >>

\* the end of the run of \w characters that starts at i
RECURSIVE WordRunEnd(_, _)
WordRunEnd(s, i) ==
    IF i > Len(s) THEN i
    ELSE IF IsWord(s[i]) THEN WordRunEnd(s, i + 1)
    ELSE i

\* code_pattern (line 392) with re.DOTALL, tried at position i: a fence, group 1
\* a greedy run of \w, a newline, group 2 a lazy run of any characters, a fence.
\* e is the index after the match (0: no match), g1 and g2 the groups
CodeMatch(s, i) ==
    IF ~StartsWithAt(s, i, Fence) THEN [e |-> 0, g1 |-> << >>, g2 |-> << >>]
    ELSE LET j == WordRunEnd(s, i + 3)
         IN  IF j > Len(s) \/ s[j] # NL THEN [e |-> 0, g1 |-> << >>, g2 |-> << >>]
             ELSE LET k == FindFrom(s, Fence, j + 1)
                  IN  IF k = 0 THEN [e |-> 0, g1 |-> << >>, g2 |-> << >>]
                      ELSE [e |-> k + 3, g1 |-> SubSeq(s, i + 3, j - 1),
                            g2 |-> SubSeq(s, j + 1, k - 1)]

\* code.replace('&', '&amp;').replace('<', '&lt;').replace('>', '&gt;')
EscapeHtml(code) ==
    Replace(Replace(Replace(code, << "&" >>, << "&", "a", "m", "p", ";" >>),
                    << "<" >>, << "&", "l", "t", ";" >>),
            << ">" >>, << "&", "g", "t", ";" >>)

\* code_html (lines 404-406)
CodeHtml(code) == CodeTpl.CodeHtmlOpen \o code \o CodeTpl.CodeHtmlClose

\* str(code_counter)
DigitSym == << "0", "1", "2", "3", "4", "5", "6", "7", "8", "9" >>
IntStr(k) ==
    IF k < 10 THEN << DigitSym[k + 1] >>
    ELSE << DigitSym[(k \div 10) + 1], DigitSym[(k % 10) + 1] >>

\* f'<!--CODEBLOCK{code_counter}-->'
Placeholder(k) == CodeTpl.PlaceholderOpen \o IntStr(k) \o CodeTpl.PlaceholderClose

\* convert_code applied to the k-th match (k from 0): the stored block
ConvertCode(g2, k) ==
    [placeholder |-> Placeholder(k), code_html |-> CodeHtml(EscapeHtml(Strip(g2)))]

CodeEnds(s) == [i \in 1..Len(s) |-> CodeMatch(s, i).e]
CodeSpans(s) == Spans(CodeEnds(s), 1, Len(s))

\* code_blocks after re.sub(code_pattern, convert_code, html): in insertion order
CodeBlocksOf(s) ==
    LET sp == CodeSpans(s)
    IN  [k \in 1..Len(sp) |-> ConvertCode(CodeMatch(s, sp[k].s).g2, k - 1)]

\* html after re.sub(code_pattern, convert_code, html, flags=re.DOTALL)
CodeSub(s) ==
    LET sp == CodeSpans(s)
    IN  Splice(s, sp, [k \in 1..Len(sp) |-> Placeholder(k - 1)])

(***************************************************************************)
(* Stage 2.1: info boxes (lines 417-444)                                   *)
(***************************************************************************)
\* '$' under re.MULTILINE: at the end of the text or just before a newline
AtDollar(s, p) == p = Len(s) + 1 \/ (p <= Len(s) /\ s[p] = NL)

\* (?=\n\n|\n\[|$)
InfoLookahead(s, p) ==
    \/ StartsWithAt(s, p, << NL, NL >>)
    \/ StartsWithAt(s, p, << NL, "[" >>)
    \/ AtDollar(s, p)

\* the lazy group [^\[]+? : the shortest body, ending before p, of at least one
\* character, none of them "[", that the lookahead accepts; 0 when there is none
InfoBodyEnd(s, p) ==
    LET q == First({k \in p..(Len(s) + 1) : s[k - 1] = "[" \/ InfoLookahead(s, k)}, 0)
    IN  IF q = 0 \/ s[q - 1] = "[" THEN 0 ELSE q

TagTIP == << "[", "T", "I", "P", "]" >>
TagWARNING == << "[", "W", "A", "R", "N", "I", "N", "G", "]" >>
TagBEST_PRACTICE == << "[", "B", "E", "S", "T", "_", "P", "R", "A", "C", "T", "I", "C", "E", "]" >>
TagKEY_TAKEAWAY == << "[", "K", "E", "Y", "_", "T", "A", "K", "E", "A", "W", "A", "Y", "]" >>

\* the info-box pattern of a tag (lines 420, 427, 434, 441) tried at i:
\* the index after the match, or 0
InfoMatchEnd(s, tag, i) ==
    IF ~StartsWithAt(s, i, tag \o << NL >>) THEN 0
    ELSE InfoBodyEnd(s, i + Len(tag) + 2)

\* one re.sub call: every match replaced by the template around group 1
InfoSub(s, tag, open, close) ==
    LET m  == [i \in 1..Len(s) |-> InfoMatchEnd(s, tag, i)]
        sp == Spans(m, 1, Len(s))
    IN  Splice(s, sp, [k \in 1..Len(sp) |->
            open \o SubSeq(s, sp[k].s + Len(tag) + 1, sp[k].e - 1) \o close])

\* the four re.sub calls, in the order of the code
InfoBoxes(s) ==
    InfoSub(InfoSub(InfoSub(InfoSub(s, TagTIP, InfoTpl.InfoOpenTIP, InfoTpl.InfoCloseTIP),
                            TagWARNING, InfoTpl.InfoOpenWARNING, InfoTpl.InfoCloseWARNING),
                    TagBEST_PRACTICE, InfoTpl.InfoOpenBEST_PRACTICE, InfoTpl.InfoCloseBEST_PRACTICE),
            TagKEY_TAKEAWAY, InfoTpl.InfoOpenKEY_TAKEAWAY, InfoTpl.InfoCloseKEY_TAKEAWAY)

(***************************************************************************)
(* Stage 2.2: tables (lines 446-490)                                       *)
(***************************************************************************)
Pipe == "|"
SepClass == {"-", ":", Pipe} \cup Whitespace

\* the last index c in lo..hi with s[c] = "|", 0 when there is none
RECURSIVE LastPipe(_, _, _)
LastPipe(s, lo, hi) ==
    IF hi < lo THEN 0
    ELSE IF s[hi] = Pipe THEN hi
    ELSE LastPipe(s, lo, hi - 1)

\* the greedy loop of data rows, each "|", one or more non-newline characters,
\* "|", an optional newline, from q: the index after the last row, 0 when the
\* first row does not match.  The pattern ends with the loop, so the loop
\* stops at the first position where no further row matches.
RECURSIVE TableRowsEnd(_, _, _)
TableRowsEnd(s, q, first) ==
    LET c == IF q <= Len(s) /\ s[q] = Pipe
             THEN LastPipe(s, q + 2, LineEnd(s, q) - 1) ELSE 0
        n == IF c > 0 /\ c + 1 <= Len(s) /\ s[c + 1] = NL THEN c + 2 ELSE c + 1
    IN  IF c = 0 THEN (IF first THEN 0 ELSE q)
        ELSE TableRowsEnd(s, n, FALSE)

\* the end of the greedy run of separator characters that starts at i
RECURSIVE SepRunEnd(_, _)
SepRunEnd(s, i) ==
    IF i > Len(s) THEN i
    ELSE IF s[i] \in SepClass THEN SepRunEnd(s, i + 1)
    ELSE i

\* the separator row "|", a greedy run of separator characters, "|", newline,
\* followed by the rows: the closing "|" is tried at p, then at the positions
\* before it (backtracking into the greedy run), down to lo
RECURSIVE TableSepEnd(_, _, _)
TableSepEnd(s, p, lo) ==
    IF p < lo THEN 0
    ELSE LET r == IF s[p] = Pipe /\ p + 1 <= Len(s) /\ s[p + 1] = NL
                  THEN TableRowsEnd(s, p + 2, TRUE) ELSE 0
         IN  IF r > 0 THEN r ELSE TableSepEnd(s, p - 1, lo)

\* table_pattern (line 448) with re.MULTILINE, tried at i: index after the match or 0
TableMatchEnd(s, i) ==
    LET le == LineEnd(s, i)
        a  == le + 1
    IN  IF s[i] # Pipe \/ le > Len(s) \/ le - 1 < i + 2 \/ s[le - 1] # Pipe THEN 0
        ELSE IF a > Len(s) \/ s[a] # Pipe THEN 0
        ELSE TableSepEnd(s, SepRunEnd(s, a + 1) - 1, a + 2)

\* [cell.strip() for cell in line.split('|')[1:-1]]
TableCells(line) ==
    LET parts == Split(line, << Pipe >>)
    IN  [k \in 1..(Len(parts) - 2) |-> Strip(parts[k + 1])]

\* lines = [line.strip() for line in table_md.split('\n') if line.strip()]
TableLines(table_md) ==
    LET ls == Split(table_md, << NL >>)
    IN  FilterIdx([k \in 1..Len(ls) |-> Strip(ls[k])],
                  {k \in 1..Len(ls) : Strip(ls[k]) # << >>}, 1)

TableHeader(lines) == TableCells(lines[1])
TableRows(lines) == [k \in 1..(Len(lines) - 2) |-> TableCells(lines[k + 2])]

\* line 470: the border of every header cell but the last
ThOpen(i, n) == IF i < n THEN TableTpl.ThOpenInner ELSE TableTpl.ThOpenLast
\* lines 480-483: the style of cell i (from 1) of a row of n cells
TdOpen(i, n) ==
    IF i = 1 THEN (IF i < n THEN TableTpl.TdOpenFirstInner ELSE TableTpl.TdOpenFirstLast)
    ELSE (IF i < n THEN TableTpl.TdOpenOtherInner ELSE TableTpl.TdOpenOtherLast)
\* line 477: idx counts from 0
TrOpen(idx) == IF idx % 2 = 1 THEN TableTpl.TrOpenOdd ELSE TableTpl.TrOpenEven

\* the cells of one rendered row (lines 479-484): one td for each cell of the row
RowHtml(row) ==
    Concat([i \in 1..Len(row) |-> TdOpen(i, Len(row)) \o row[i] \o TableTpl.TdClose])

\* lines 464-486
TableHtml(header, rows) ==
    TableTpl.TableOpen
    \o Concat([i \in 1..Len(header) |-> ThOpen(i, Len(header)) \o header[i] \o TableTpl.ThClose])
    \o TableTpl.TableMid
    \o Concat([k \in 1..Len(rows) |-> TrOpen(k - 1) \o RowHtml(rows[k]) \o TableTpl.TrClose])
    \o TableTpl.TableClose

\* convert_table (lines 450-488) on the matched text
ConvertTable(table_md) ==
    LET lines == TableLines(table_md)
    IN  IF Len(lines) < 2 THEN table_md
        ELSE TableHtml(TableHeader(lines), TableRows(lines))

TableSpans(s) == Spans([i \in 1..Len(s) |-> TableMatchEnd(s, i)], 1, Len(s))

TableSub(s) ==
    LET sp == TableSpans(s)
    IN  Splice(s, sp, [k \in 1..Len(sp) |-> ConvertTable(SubSeq(s, sp[k].s, sp[k].e - 1))])

(***************************************************************************)
(* Bullet regions of the pros/cons and timeline patterns (lines 494, 557)  *)
(***************************************************************************)
Bullet == << "-", " " >>

\* one iteration "- ", one or more non-newline characters, can start at q
IsBulletAt(s, q) == StartsWithAt(s, q, Bullet) /\ LineEnd(s, q) >= q + 3

\* the lookahead that ends the CONS and TIMELINE regions: a blank line, a
\* newline and "##", a newline and "[", or '$' under re.MULTILINE
RegionLookahead(s, p) ==
    \/ StartsWithAt(s, p, << NL, NL >>)
    \/ StartsWithAt(s, p, << NL, "#", "#" >>)
    \/ StartsWithAt(s, p, << NL, "[" >>)
    \/ AtDollar(s, p)

\* the lazy loop of bullet iterations followed by the lookahead, from q: the
\* index after the group, 0 when no bullet starts at q.  An iteration takes the
\* line greedily, then its optional newline; the lazy loop first tries to stop,
\* then another iteration, and only then gives the newline back.
RECURSIVE BulletLoopEnd(_, _)
BulletLoopEnd(s, q) ==
    IF ~IsBulletAt(s, q) THEN 0
    ELSE LET le == LineEnd(s, q)
             viaNl == IF le > Len(s) THEN 0
                      ELSE IF RegionLookahead(s, le + 1) THEN le + 1
                      ELSE BulletLoopEnd(s, le + 1)
         IN  IF viaNl > 0 THEN viaNl
             ELSE IF RegionLookahead(s, le) THEN le
             ELSE 0

(***************************************************************************)
(* Stage 2.3: pros and cons (lines 492-523)                                *)
(***************************************************************************)
TagPROS == << "[", "P", "R", "O", "S", "]" >>
TagCONS == << "[", "C", "O", "N", "S", "]" >>

\* the end of the run of newlines that starts at p
RECURSIVE NewlineRunEnd(_, _)
NewlineRunEnd(s, p) ==
    IF p <= Len(s) /\ s[p] = NL THEN NewlineRunEnd(s, p + 1) ELSE p

NoMatch == [e |-> 0, g1s |-> 0, g1e |-> 0, g2s |-> 0, g2e |-> 0]

\* a faulty variant: the bullets of [CONS] are optional
ProsTailNoBullets(s, p) ==
    LET r == NewlineRunEnd(s, p)
        b == BulletLoopEnd(s, r + Len(TagCONS) + 1)
    IN  IF r = p \/ ~StartsWithAt(s, r, TagCONS \o << NL >>) THEN [e |-> 0, g2s |-> 0]
        ELSE [e |-> IF b = 0 THEN r + Len(TagCONS) + 1 ELSE b, g2s |-> r + Len(TagCONS) + 1]

\* what follows group 1, tried at p: one or more newlines, "[CONS]", a newline,
\* group 2 and the lookahead; the index after group 2 and its start, or e = 0
ProsTail(s, p) ==
    LET r == NewlineRunEnd(s, p)
    IN  IF r = p \/ ~StartsWithAt(s, r, TagCONS \o << NL >>) THEN [e |-> 0, g2s |-> 0]
        ELSE [e |-> BulletLoopEnd(s, r + Len(TagCONS) + 1), g2s |-> r + Len(TagCONS) + 1]

\* the lazy loop of group 1 from q, followed by ProsTail: e = 0 when it fails
RECURSIVE ProsLoop(_, _)
ProsLoop(s, q) ==
    IF ~IsBulletAt(s, q) THEN [e |-> 0, g1e |-> 0, g2s |-> 0]
    ELSE LET le == LineEnd(s, q)
             stopNl == IF le > Len(s) THEN [e |-> 0, g2s |-> 0] ELSE ProsTail(s, le + 1)
             more   == IF le > Len(s) THEN [e |-> 0, g1e |-> 0, g2s |-> 0]
                       ELSE ProsLoop(s, le + 1)
             stop   == ProsTail(s, le)
         IN  IF stopNl.e > 0 THEN [e |-> stopNl.e, g1e |-> le + 1, g2s |-> stopNl.g2s]
             ELSE IF more.e > 0 THEN more
             ELSE IF stop.e > 0 THEN [e |-> stop.e, g1e |-> le, g2s |-> stop.g2s]
             ELSE [e |-> 0, g1e |-> 0, g2s |-> 0]

\* proscons_pattern (line 494) tried at i: the match and its two groups
ProsConsMatch(s, i) ==
    IF ~StartsWithAt(s, i, TagPROS \o << NL >>) THEN NoMatch
    ELSE LET m == ProsLoop(s, i + Len(TagPROS) + 1)
         IN  IF m.e = 0 THEN NoMatch
             ELSE [e |-> m.e, g1s |-> i + Len(TagPROS) + 1, g1e |-> m.g1e,
                   g2s |-> m.g2s, g2e |-> m.e]

\* a faulty variant: only the first line of the group is looked at
BulletItemsFirstLine(g) ==
    LET st == Strip(Split(Strip(g), << NL >>)[1])
    IN  IF StartsWith(st, Bullet) THEN << SubSeq(st, 3, Len(st)) >> ELSE << >>

\* [line.strip()[2:] for line in g.strip().split('\n') if line.strip().startswith('- ')]
BulletItems(g) ==
    LET ls == Split(Strip(g), << NL >>)
        st == [k \in 1..Len(ls) |-> Strip(ls[k])]
    IN  FilterIdx([k \in 1..Len(ls) |-> SubSeq(st[k], 3, Len(st[k]))],
                  {k \in 1..Len(ls) : StartsWith(st[k], Bullet)}, 1)

\* lines 506-508 and 515-517: the items of one column
ProsItems(items) ==
    Concat([k \in 1..Len(items) |->
        (IF k < Len(items) THEN ProsConsTpl.ProsLiOpenInner ELSE ProsConsTpl.ProsLiOpenLast)
        \o items[k] \o ProsConsTpl.ProsLiClose])
ConsItems(items) ==
    Concat([k \in 1..Len(items) |->
        (IF k < Len(items) THEN ProsConsTpl.ConsLiOpenInner ELSE ProsConsTpl.ConsLiOpenLast)
        \o items[k] \o ProsConsTpl.ConsLiClose])

\* convert_proscons (lines 496-521)
ConvertProsCons(g1, g2) ==
    ProsConsTpl.GridOpen
    \o ProsConsTpl.ProsColumnOpen \o ProsItems(BulletItems(g1)) \o ProsConsTpl.ColumnClose
    \o ProsConsTpl.ConsColumnOpen \o ConsItems(BulletItems(g2)) \o ProsConsTpl.ColumnClose
    \o ProsConsTpl.GridClose

ProsConsSpans(s) == Spans([i \in 1..Len(s) |-> ProsConsMatch(s, i).e], 1, Len(s))

ProsConsSub(s) ==
    LET sp == ProsConsSpans(s)
    IN  Splice(s, sp, [k \in 1..Len(sp) |->
            LET m == ProsConsMatch(s, sp[k].s)
            IN  ConvertProsCons(SubSeq(s, m.g1s, m.g1e - 1), SubSeq(s, m.g2s, m.g2e - 1))])

(***************************************************************************)
(* Stage 2.4: FAQ (lines 525-553)                                          *)
(***************************************************************************)
TagFAQ == << "[", "F", "A", "Q", "]" >>
TagTIMELINE == << "[", "T", "I", "M", "E", "L", "I", "N", "E", "]" >>

\* the negative lookahead of faq_pattern (line 527)
FaqStop(s, p) ==
    \/ StartsWithAt(s, p, << NL, "#", "#" >>)
    \/ StartsWithAt(s, p, TagPROS)
    \/ StartsWithAt(s, p, TagCONS)
    \/ StartsWithAt(s, p, TagTIMELINE)

\* the greedy run of characters, none at a position where FaqStop holds, from p
FaqRunEnd(s, p) ==
    IF p > Len(s) THEN p ELSE First({q \in p..Len(s) : FaqStop(s, q)}, Len(s) + 1)

\* faq_pattern tried at i: index after the match (the run has one character or more)
FaqMatchEnd(s, i) ==
    IF ~StartsWithAt(s, i, TagFAQ \o << NL >>) THEN 0
    ELSE LET b == i + Len(TagFAQ) + 1
             r == FaqRunEnd(s, b)
         IN  IF r > b THEN r ELSE 0

\* '$' without re.MULTILINE: at the end, or before a newline that ends the text
AtEnd(t, p) == p = Len(t) + 1 \/ (p = Len(t) /\ t[p] = NL)

\* the lazy answer group of qa_pattern (line 532) from p: the first position
\* followed by a blank line and "Q:", or at the end
AnswerEnd(t, p) ==
    First({k \in p..(Len(t) + 1) : StartsWithAt(t, k, << NL, NL, "Q", ":" >>) \/ AtEnd(t, k)},
          Len(t) + 1)

QaNone == [e |-> 0, q |-> << >>, a |-> << >>]

\* qa_pattern with re.DOTALL tried at i: "Q: ", a lazy question of one character
\* or more, a newline and "A: ", the lazy answer
QaMatch(t, i) ==
    IF ~StartsWithAt(t, i, << "Q", ":", " " >>) THEN QaNone
    ELSE LET j == FindFrom(t, << NL, "A", ":", " " >>, i + 4)
         IN  IF j = 0 THEN QaNone
             ELSE LET e == AnswerEnd(t, j + 4)
                  IN  [e |-> e, q |-> SubSeq(t, i + 3, j - 1), a |-> SubSeq(t, j + 4, e - 1)]

\* re.findall(qa_pattern, faq_text, re.DOTALL)
QaPairs(t) ==
    LET sp == Spans([i \in 1..Len(t) |-> QaMatch(t, i).e], 1, Len(t))
    IN  [k \in 1..Len(sp) |-> QaMatch(t, sp[k].s)]

\* len(colors) (lines 535, 562)
NumColors == 3

\* lines 539-546: the card up to the question; idx counts from 0, of n cards
FaqCardOpen(idx, n) ==
    LET c == idx % NumColors
    IN  IF idx < n - 1
        THEN (CASE c = 0 -> FaqTpl.FaqCardOpen0Inner [] c = 1 -> FaqTpl.FaqCardOpen1Inner
                [] OTHER -> FaqTpl.FaqCardOpen2Inner)
        ELSE (CASE c = 0 -> FaqTpl.FaqCardOpen0Last [] c = 1 -> FaqTpl.FaqCardOpen1Last
                [] OTHER -> FaqTpl.FaqCardOpen2Last)

\* one question/answer card (lines 539-548)
FaqCard(idx, n, question, answer) ==
    FaqCardOpen(idx, n) \o Strip(question) \o FaqTpl.FaqCardMid
    \o Strip(answer) \o FaqTpl.FaqCardClose

\* convert_faq (lines 529-551) on group 1
ConvertFaq(g1) ==
    LET qa == QaPairs(Strip(g1))
    IN  FaqTpl.FaqOpen
        \o Concat([k \in 1..Len(qa) |-> FaqCard(k - 1, Len(qa), qa[k].q, qa[k].a)])
        \o FaqTpl.FaqClose

FaqSpans(s) == Spans([i \in 1..Len(s) |-> FaqMatchEnd(s, i)], 1, Len(s))

FaqSub(s) ==
    LET sp == FaqSpans(s)
    IN  Splice(s, sp, [k \in 1..Len(sp) |->
            ConvertFaq(SubSeq(s, sp[k].s + Len(TagFAQ) + 1, sp[k].e - 1))])

(***************************************************************************)
(* Stage 2.5: timeline (lines 555-589)                                     *)
(***************************************************************************)
\* timeline_pattern (line 557) tried at i: index after the match, or 0
TimelineMatchEnd(s, i) ==
    IF ~StartsWithAt(s, i, TagTIMELINE \o << NL >>) THEN 0
    ELSE BulletLoopEnd(s, i + Len(TagTIMELINE) + 1)

\* a faulty variant: the item is split at its last ' - '
TimelinePartsLast(item) ==
    LET ks == {k \in 1..Len(item) : StartsWithAt(item, k, << " ", "-", " " >>)}
    IN  IF ks = {} THEN << item >>
        ELSE LET k == CHOOSE k \in ks : \A m \in ks : m <= k
             IN  << SubSeq(item, 1, k - 1), SubSeq(item, k + 3, Len(item)) >>

\* parts = item.split(' - ', 1)
TimelineParts(item) == Split1(item, << " ", "-", " " >>)
\* title = parts[0] if len(parts) > 0 else item
TimelineTitle(item) ==
    LET parts == TimelineParts(item) IN IF Len(parts) > 0 THEN parts[1] ELSE item
\* desc = parts[1] if len(parts) > 1 else ''
TimelineDesc(item) ==
    LET parts == TimelineParts(item) IN IF Len(parts) > 1 THEN parts[2] ELSE << >>

\* lines 569-581: the entry up to the title; idx counts from 0, of n entries
TimelineEntryOpen(idx, n) ==
    LET c == idx % NumColors
    IN  IF idx < n - 1
        THEN (CASE c = 0 -> TimelineTpl.TimelineEntryOpen0Inner [] c = 1 -> TimelineTpl.TimelineEntryOpen1Inner
                [] OTHER -> TimelineTpl.TimelineEntryOpen2Inner)
        ELSE (CASE c = 0 -> TimelineTpl.TimelineEntryOpen0Last [] c = 1 -> TimelineTpl.TimelineEntryOpen1Last
                [] OTHER -> TimelineTpl.TimelineEntryOpen2Last)

\* one entry (lines 568-584)
TimelineEntry(idx, n, item) ==
    TimelineEntryOpen(idx, n) \o TimelineTitle(item) \o TimelineTpl.TimelineTitleClose
    \o (IF TimelineDesc(item) # << >>
        THEN TimelineTpl.TimelineDescOpen \o TimelineDesc(item) \o TimelineTpl.TimelineDescClose
        ELSE << >>)
    \o TimelineTpl.TimelineEntryClose

\* convert_timeline (lines 559-587) on group 1
ConvertTimeline(g1) ==
    LET items == BulletItems(g1)
    IN  TimelineTpl.TimelineOpen
        \o Concat([k \in 1..Len(items) |-> TimelineEntry(k - 1, Len(items), items[k])])
        \o TimelineTpl.TimelineClose

TimelineSpans(s) == Spans([i \in 1..Len(s) |-> TimelineMatchEnd(s, i)], 1, Len(s))

TimelineSub(s) ==
    LET sp == TimelineSpans(s)
    IN  Splice(s, sp, [k \in 1..Len(sp) |->
            ConvertTimeline(SubSeq(s, sp[k].s + Len(TagTIMELINE) + 1, sp[k].e - 1))])

(***************************************************************************)
(* Stage 3: headings (lines 593-600)                                       *)
(***************************************************************************)
Hashes(k) == [j \in 1..k |-> "#"]

AtLineStart(s, i) == i = 1 \/ s[i - 1] = NL

\* a faulty variant: the pattern is not held to the start of a line
HeadingMatchEndAnywhere(s, k, i) ==
    IF StartsWithAt(s, i, Hashes(k) \o << " " >>) /\ LineEnd(s, i) >= i + k + 2
    THEN LineEnd(s, i) ELSE 0

\* the heading pattern of level k with re.MULTILINE tried at i: at a line start,
\* k "#", a space, one or more characters up to the end of the line
HeadingMatchEnd(s, k, i) ==
    IF AtLineStart(s, i) /\ StartsWithAt(s, i, Hashes(k) \o << " " >>)
       /\ LineEnd(s, i) >= i + k + 2
    THEN LineEnd(s, i) ELSE 0

HeadingOpen ==
    << HeadingTpl.H1Open, HeadingTpl.H2Open, HeadingTpl.H3Open, HeadingTpl.H4Open,
       HeadingTpl.H5Open, HeadingTpl.H6Open >>
HeadingClose ==
    << HeadingTpl.H1Close, HeadingTpl.H2Close, HeadingTpl.H3Close, HeadingTpl.H4Close,
       HeadingTpl.H5Close, HeadingTpl.H6Close >>

HeadingSub(s, k) ==
    LET sp == Spans([i \in 1..Len(s) |-> HeadingMatchEnd(s, k, i)], 1, Len(s))
    IN  Splice(s, sp, [n \in 1..Len(sp) |->
            HeadingOpen[k] \o SubSeq(s, sp[n].s + k + 1, sp[n].e - 1) \o HeadingClose[k]])

\* the six re.sub calls, from ###### down to #
Headings(s) ==
    HeadingSub(HeadingSub(HeadingSub(HeadingSub(HeadingSub(HeadingSub(s, 6), 5), 4), 3), 2), 1)

(***************************************************************************)
(* Stage 3: bold, italic, links (lines 602-616)                            *)
(***************************************************************************)
\* the lazy group of one or more characters other than the mark c, followed by
\* ":" and two marks; j is the candidate position of the ":"
LabelEnd(s, c, j) ==
    LET q == First({k \in j..Len(s) :
                       k + 2 > Len(s) \/ s[k - 1] = c \/ StartsWithAt(s, k, << ":", c, c >>)}, 0)
    IN  IF q = 0 \/ q + 2 > Len(s) \/ s[q - 1] = c THEN 0 ELSE q + 3

\* bold label pattern (lines 604, 605) tried at i
LabelMatchEnd(s, c, i) ==
    IF StartsWithAt(s, i, << c, c >>) THEN LabelEnd(s, c, i + 3) ELSE 0

\* the lazy group of one or more non-newline characters followed by two marks
BoldEnd(s, c, j) ==
    LET q == First({k \in j..Len(s) :
                       k + 1 > Len(s) \/ s[k - 1] = NL \/ StartsWithAt(s, k, << c, c >>)}, 0)
    IN  IF q = 0 \/ q + 1 > Len(s) \/ s[q - 1] = NL THEN 0 ELSE q + 2

\* bold pattern (lines 608, 609) tried at i
BoldMatchEnd(s, c, i) ==
    IF StartsWithAt(s, i, << c, c >>) THEN BoldEnd(s, c, i + 3) ELSE 0

\* the lazy group of one or more characters other than the mark, then the mark
ItalicEnd(s, c, j) ==
    LET q == First({k \in j..Len(s) : s[k - 1] = c \/ s[k] = c}, 0)
    IN  IF q = 0 \/ s[q - 1] = c THEN 0 ELSE q + 1

\* italic pattern (lines 612, 613) tried at i
ItalicMatchEnd(s, c, i) ==
    IF s[i] = c THEN ItalicEnd(s, c, i + 2) ELSE 0

LabelSub(s, c) ==
    LET sp == Spans([i \in 1..Len(s) |-> LabelMatchEnd(s, c, i)], 1, Len(s))
    IN  Splice(s, sp, [n \in 1..Len(sp) |->
            InlineTpl.LabelOpen \o SubSeq(s, sp[n].s + 2, sp[n].e - 4) \o InlineTpl.LabelClose])

BoldSub(s, c) ==
    LET sp == Spans([i \in 1..Len(s) |-> BoldMatchEnd(s, c, i)], 1, Len(s))
    IN  Splice(s, sp, [n \in 1..Len(sp) |->
            InlineTpl.StrongOpen \o SubSeq(s, sp[n].s + 2, sp[n].e - 3) \o InlineTpl.StrongClose])

ItalicSub(s, c) ==
    LET sp == Spans([i \in 1..Len(s) |-> ItalicMatchEnd(s, c, i)], 1, Len(s))
    IN  Splice(s, sp, [n \in 1..Len(sp) |->
            InlineTpl.EmOpen \o SubSeq(s, sp[n].s + 1, sp[n].e - 2) \o InlineTpl.EmClose])

\* lines 604-609
Bold(s) == BoldSub(BoldSub(LabelSub(LabelSub(s, "*"), "_"), "*"), "_")
\* lines 612-613
Italic(s) == ItalicSub(ItalicSub(s, "*"), "_")

\* the url group of the link pattern: lazy, one or more non-newline characters,
\* then ")"; k is the candidate position of the ")"
UrlEnd(s, k) ==
    LET q == First({n \in k..Len(s) : s[n - 1] = NL \/ s[n] = ")"}, 0)
    IN  IF q = 0 \/ s[q - 1] = NL THEN 0 ELSE q + 1

\* the text group of the link pattern: lazy, one or more non-newline characters,
\* then "](" and the url group; j is the candidate position of the "]"
LinkFrom(s, j) ==
    LET q == First({k \in j..Len(s) :
                       \/ k + 1 > Len(s)
                       \/ s[k - 1] = NL
                       \/ StartsWithAt(s, k, << "]", "(" >>) /\ UrlEnd(s, k + 3) > 0}, 0)
    IN  IF q = 0 \/ q + 1 > Len(s) \/ s[q - 1] = NL THEN [e |-> 0, j |-> 0]
        ELSE [e |-> UrlEnd(s, q + 3), j |-> q]

\* link pattern (line 616) tried at i
LinkMatch(s, i) ==
    IF s[i] = "[" THEN LinkFrom(s, i + 2) ELSE [e |-> 0, j |-> 0]

Links(s) ==
    LET sp == Spans([i \in 1..Len(s) |-> LinkMatch(s, i).e], 1, Len(s))
    IN  Splice(s, sp, [n \in 1..Len(sp) |->
            LET j == LinkMatch(s, sp[n].s).j
            IN  InlineTpl.LinkOpen \o SubSeq(s, j + 2, sp[n].e - 2) \o InlineTpl.LinkMid
                \o SubSeq(s, sp[n].s + 1, j - 1) \o InlineTpl.LinkClose])

(***************************************************************************)
(* Stage 3: lists (lines 618-675)                                          *)
(***************************************************************************)
RECURSIVE DigitRunEnd(_, _)
DigitRunEnd(t, i) ==
    IF i <= Len(t) /\ IsDigit(t[i]) THEN DigitRunEnd(t, i + 1) ELSE i

RECURSIVE SpaceRunEnd(_, _)
SpaceRunEnd(t, i) ==
    IF i <= Len(t) /\ IsSpace(t[i]) THEN SpaceRunEnd(t, i + 1) ELSE i

\* the numbered-item pattern (lines 643, 655) at the start of t: one or more
\* digits, a dot, one or more whitespace; the index after it, 0 when no match
NumberedPrefixEnd(t) ==
    LET d == DigitRunEnd(t, 1)
        w == SpaceRunEnd(t, d + 1)
    IN  IF d > 1 /\ d <= Len(t) /\ t[d] = "." /\ w > d + 1 THEN w ELSE 0

IsBulletLine(stripped) ==
    StartsWith(stripped, << "-", " " >>) \/ StartsWith(stripped, << "*", " " >>)
IsNumberedLine(stripped) == NumberedPrefixEnd(stripped) > 0

\* lines 640, 656
BulletLi(item) == ListTpl.BulletLiOpen \o item \o ListTpl.BulletLiClose
NumberedLi(item) == ListTpl.NumberedLiOpen \o item \o ListTpl.NumberedLiClose

\* a faulty variant: the flag of the list that a line closes is not reset
ScanStepNoReset(line, inb, inn) ==
    LET stripped == Strip(line)
    IN  IF IsBulletLine(stripped)
        THEN [out |-> (IF inn THEN << ListTpl.OlClose >> ELSE << >>)
                      \o (IF ~inb THEN << ListTpl.UlOpen >> ELSE << >>)
                      \o << BulletLi(SubSeq(stripped, 3, Len(stripped))) >>,
              inb |-> TRUE, inn |-> inn]
        ELSE IF IsNumberedLine(stripped)
        THEN [out |-> (IF inb THEN << ListTpl.UlClose >> ELSE << >>)
                      \o (IF ~inn THEN << ListTpl.OlOpen >> ELSE << >>)
                      \o << NumberedLi(SubSeq(stripped, NumberedPrefixEnd(stripped),
                                              Len(stripped))) >>,
              inb |-> inb, inn |-> TRUE]
        ELSE [out |-> (IF inb THEN << ListTpl.UlClose >> ELSE << >>)
                      \o (IF inn THEN << ListTpl.OlClose >> ELSE << >>)
                      \o << line >>,
              inb |-> FALSE, inn |-> FALSE]

\* one pass of the loop body (lines 625-667) on a line: the lines appended to
\* result and the two flags after it
ScanStep(line, inb, inn) ==
    LET stripped == Strip(line)
    IN  IF IsBulletLine(stripped)
        THEN [out |-> (IF inn THEN << ListTpl.OlClose >> ELSE << >>)
                      \o (IF ~inb THEN << ListTpl.UlOpen >> ELSE << >>)
                      \o << BulletLi(SubSeq(stripped, 3, Len(stripped))) >>,
              inb |-> TRUE, inn |-> FALSE]
        ELSE IF IsNumberedLine(stripped)
        THEN [out |-> (IF inb THEN << ListTpl.UlClose >> ELSE << >>)
                      \o (IF ~inn THEN << ListTpl.OlOpen >> ELSE << >>)
                      \o << NumberedLi(SubSeq(stripped, NumberedPrefixEnd(stripped),
                                              Len(stripped))) >>,
              inb |-> FALSE, inn |-> TRUE]
        ELSE [out |-> (IF inb THEN << ListTpl.UlClose >> ELSE << >>)
                      \o (IF inn THEN << ListTpl.OlClose >> ELSE << >>)
                      \o << line >>,
              inb |-> FALSE, inn |-> FALSE]

\* a faulty variant: no closing tag is appended after the loop
CloseNothing(inb, inn) == << >>

\* lines 669-673: the closing tags appended after the loop
CloseRemaining(inb, inn) ==
    (IF inb THEN << ListTpl.UlClose >> ELSE << >>) \o (IF inn THEN << ListTpl.OlClose >> ELSE << >>)

(***************************************************************************)
(* Stage 4: paragraphs (lines 677-688)                                     *)
(***************************************************************************)
\* para.startswith('<')
StartsWithLt(para) == Len(para) > 0 /\ para[1] \in LtSyms

\* the loop body of lines 681-686 on one chunk: the chunks appended
ParagraphOf(chunk) ==
    LET para == Strip(chunk)
    IN  IF para # << >> /\ ~StartsWithLt(para)
        THEN << PageTpl.ParaOpen \o para \o PageTpl.ParaClose >>
        ELSE IF para # << >> THEN << para >>
        ELSE << >>

\* lines 678-688
Paragraphs(s) ==
    LET paragraphs == Split(s, << NL, NL >>)
    IN  Join(Concat([k \in 1..Len(paragraphs) |-> ParagraphOf(paragraphs[k])]), << NL, NL >>)

\* a faulty variant: only the first stored block is put back
RestoreFirst(text, blocks) ==
    IF Len(blocks) = 0 THEN text
    ELSE Replace(text, blocks[1].placeholder, blocks[1].code_html)

(***************************************************************************)
(* Stages 5 and 6: restoration and container (lines 690-696)               *)
(***************************************************************************)
\* the loop of lines 692-693 over code_blocks.items(), from block k
RECURSIVE RestoreFrom(_, _, _)
RestoreFrom(text, blocks, k) ==
    IF k > Len(blocks) THEN text
    ELSE RestoreFrom(Replace(text, blocks[k].placeholder, blocks[k].code_html), blocks, k + 1)

Restore(text, blocks) == RestoreFrom(text, blocks, 1)

Container(text) == PageTpl.ContainerOpen \o text \o PageTpl.ContainerClose

(***************************************************************************)
(* IndexError: the list reads of the two callbacks that index a list       *)
(***************************************************************************)
\* the indices of lines that convert_table reads (lines 454-458)
TableReads(lines) == IF Len(lines) < 2 THEN {} ELSE {1}

\* a faulty variant: desc = parts[1] without the length test
TimelineReadsUnguarded(parts) == {1, 2}

\* the indices of parts that convert_timeline reads (lines 574-575)
TimelineReads(parts) ==
    (IF Len(parts) > 0 THEN {1} ELSE {}) \cup (IF Len(parts) > 1 THEN {2} ELSE {})

\* some match of the table pattern makes convert_table read past its list
TableRaises(s) ==
    \E k \in DOMAIN TableSpans(s) :
        LET lines == TableLines(SubSeq(s, TableSpans(s)[k].s, TableSpans(s)[k].e - 1))
        IN  ~(TableReads(lines) \subseteq DOMAIN lines)

\* some match of the timeline pattern makes convert_timeline read past its list
TimelineRaises(s) ==
    \E k \in DOMAIN TimelineSpans(s) :
        LET items == BulletItems(SubSeq(s, TimelineSpans(s)[k].s + Len(TagTIMELINE) + 1,
                                        TimelineSpans(s)[k].e - 1))
        IN  \E n \in DOMAIN items :
                ~(TimelineReads(TimelineParts(items[n])) \subseteq DOMAIN TimelineParts(items[n]))

(***************************************************************************)
(* The status file (lines 63-116).  A record is written here by its        *)
(* next_day alone; a file is whether it exists, and its text               *)
(***************************************************************************)
NoFile == [exists |-> FALSE, data |-> << >>]
\* the record load_status returns when it has nothing to read (lines 71, 81-85)
DefaultStatus == [next_day |-> 1]
\* json.dump(status, f) and f.write('\n') (lines 98-99): the text of the file
Dump(st) == << "{" >> \o IntStr(st.next_day) \o << "}", NL >>
\* json.loads(text): the record of a complete text, a JSONDecodeError otherwise
Loads(text) ==
    IF Len(text) = 3 /\ text[1] = "{" /\ IsDigit(text[2]) /\ text[3] = "}"
    THEN [ok |-> TRUE,
          value |-> [next_day |-> (CHOOSE d \in 0..9 : DigitSym[d + 1] = text[2])]]
    ELSE [ok |-> FALSE, value |-> DefaultStatus]

(***************************************************************************)
(* The state machine: one call of convert_markdown_to_html                 *)
(***************************************************************************)
VARIABLES
    input,            \* markdown_content
    pc,               \* the statement the call is at
    html,             \* the working text
    stage_in,         \* history: the working text before the last stage
    code_blocks,      \* placeholder and code_html of each fence, in insertion order
    code_counter,
    lines,            \* html.split(NL) of the list conversion
    line_no,          \* the next line of the scan, from 1
    in_bullet_list,
    in_numbered_list,
    result,           \* the lines emitted by the scan
    html_content,     \* the joined paragraphs, then the restored text
    ret,              \* the returned string
    status_file,      \* the file at STATUS_FILE: whether it exists, and its text
    temp_file,        \* the file at STATUS_FILE + ".tmp"
    status,           \* the argument of save_status
    save_pc,          \* the statement save_status is at
    previous,         \* history: the file at STATUS_FILE when save_status was called
    loaded,           \* what load_status returned
    topics,           \* the days of the topics of TOPICS_FILE, in the order of the file
    configured,       \* whether the keys and credentials of lines 23-32 are set
    main_pc,          \* the statement main is at
    topic,            \* topic_data of this run: its index in topics, 0 for None
    attempt,          \* the loop variable of publish_to_blogger
    sent,             \* history: the outcomes of the POST requests of this call
    success,          \* what publish_to_blogger returned ("none": not yet)
    log               \* history: the topic and the result of each finished run

status_vars == << status_file, temp_file, status, save_pc, previous, loaded >>

main_vars == << topics, configured, main_pc, topic, attempt, sent, success, log >>

vars == << input, pc, html, stage_in, code_blocks, code_counter, lines, line_no,
           in_bullet_list, in_numbered_list, result, html_content, ret, status_vars,
           main_vars >>

scan_vars == << lines, line_no, in_bullet_list, in_numbered_list, result >>

\* main is not running
MainIdle ==
    /\ topics = << 1 >>
    /\ configured = TRUE
    /\ main_pc = "idle"
    /\ topic = 0
    /\ attempt = 0
    /\ sent = << >>
    /\ success = "none"
    /\ log = << >>

\* the state at line 380, for an argument drawn from the set S
InitWith(S) ==
    /\ input \in S
    /\ pc = "code"
    /\ html = input
    /\ stage_in = input
    /\ code_blocks = << >>
    /\ code_counter = 0
    /\ lines = << >>
    /\ line_no = 1
    /\ in_bullet_list = FALSE
    /\ in_numbered_list = FALSE
    /\ result = << >>
    /\ html_content = << >>
    /\ ret = << >>
    /\ status_file = NoFile
    /\ temp_file = NoFile
    /\ status = DefaultStatus
    /\ save_pc = "idle"
    /\ previous = NoFile
    /\ loaded = DefaultStatus
    /\ MainIdle

\* a re.sub stage that rewrites html
Stage(from, to, out) ==
    /\ pc = from
    /\ pc' = to
    /\ stage_in' = html
    /\ html' = out
    /\ UNCHANGED << main_vars, status_vars, input, code_blocks, code_counter, scan_vars, html_content, ret >>

\* an exception leaves the call: nothing is returned
Raise ==
    /\ pc' = "raised"
    /\ UNCHANGED << main_vars, status_vars, input, html, stage_in, code_blocks, code_counter, scan_vars,
                    html_content, ret >>

\* lines 392-415
ExtractCode ==
    /\ pc = "code"
    /\ pc' = "info"
    /\ stage_in' = html
    /\ html' = CodeSub(html)
    /\ code_blocks' = CodeBlocksOf(html)
    /\ code_counter' = Len(CodeSpans(html))
    /\ UNCHANGED << main_vars, status_vars, input, scan_vars, html_content, ret >>

\* lines 419-444
ConvertInfoBoxes == Stage("info", "table", InfoBoxes(html))

\* line 490; an IndexError in convert_table ends the call
ConvertTables ==
    /\ pc = "table"
    /\ IF TableRaises(html) THEN Raise ELSE Stage("table", "proscons", TableSub(html))

\* line 523
ConvertProsConsStage == Stage("proscons", "faq", ProsConsSub(html))

\* a faulty variant: the timeline conversion runs before the FAQ conversion
ConvertTimelineBeforeFaq == Stage("faq", "timeline", FaqSub(TimelineSub(html)))

\* line 553
ConvertFaqStage == Stage("faq", "timeline", FaqSub(html))

\* line 589; an IndexError in convert_timeline ends the call
ConvertTimelineStage ==
    /\ pc = "timeline"
    /\ IF TimelineRaises(html) THEN Raise ELSE Stage("timeline", "headings", TimelineSub(html))

\* lines 595-600
ConvertHeadings == Stage("headings", "bold", Headings(html))

\* lines 604-609
ConvertBold == Stage("bold", "italic", Bold(html))

\* lines 612-613
ConvertItalic == Stage("italic", "links", Italic(html))

\* line 616
ConvertLinks == Stage("links", "lists", Links(html))

\* lines 619-622
SplitLines ==
    /\ pc = "lists"
    /\ pc' = "scan"
    /\ lines' = Split(html, << NL >>)
    /\ line_no' = 1
    /\ in_bullet_list' = FALSE
    /\ in_numbered_list' = FALSE
    /\ result' = << >>
    /\ UNCHANGED << main_vars, status_vars, input, html, stage_in, code_blocks, code_counter, html_content, ret >>

\* one iteration of the loop of lines 624-667
ScanLine ==
    /\ pc = "scan"
    /\ line_no <= Len(lines)
    /\ LET st == ScanStep(lines[line_no], in_bullet_list, in_numbered_list)
       IN  /\ result' = result \o st.out
           /\ in_bullet_list' = st.inb
           /\ in_numbered_list' = st.inn
    /\ line_no' = line_no + 1
    /\ UNCHANGED << main_vars, status_vars, input, pc, html, stage_in, lines, code_blocks, code_counter,
                    html_content, ret >>

\* lines 669-675: the end of the loop, the remaining closing tags, the join
CloseLists ==
    /\ pc = "scan"
    /\ line_no > Len(lines)
    /\ pc' = "paragraphs"
    /\ result' = result \o CloseRemaining(in_bullet_list, in_numbered_list)
    /\ stage_in' = html
    /\ html' = Join(result', << NL >>)
    /\ UNCHANGED << main_vars, status_vars, input, lines, line_no, in_bullet_list, in_numbered_list,
                    code_blocks, code_counter, html_content, ret >>

\* lines 678-688
WrapParagraphs ==
    /\ pc = "paragraphs"
    /\ pc' = "restore"
    /\ html_content' = Paragraphs(html)
    /\ UNCHANGED << main_vars, status_vars, input, html, stage_in, code_blocks, code_counter, scan_vars, ret >>

\* lines 692-693
RestoreCode ==
    /\ pc = "restore"
    /\ pc' = "return"
    /\ html_content' = Restore(html_content, code_blocks)
    /\ UNCHANGED << main_vars, status_vars, input, html, stage_in, code_blocks, code_counter, scan_vars, ret >>

\* line 696
Return ==
    /\ pc = "return"
    /\ pc' = "done"
    /\ ret' = Container(html_content)
    /\ UNCHANGED << main_vars, status_vars, input, html, stage_in, code_blocks, code_counter, scan_vars, html_content >>

Next ==
    \/ ExtractCode
    \/ ConvertInfoBoxes
    \/ ConvertTables
    \/ ConvertProsConsStage
    \/ ConvertFaqStage
    \/ ConvertTimelineStage
    \/ ConvertHeadings
    \/ ConvertBold
    \/ ConvertItalic
    \/ ConvertLinks
    \/ SplitLines
    \/ ScanLine
    \/ CloseLists
    \/ WrapParagraphs
    \/ RestoreCode
    \/ Return

(***************************************************************************)
(* The state machine of save_status (lines 88-116), of the process that    *)
(* stops in it, and of the load_status (lines 63-85) of the next run       *)
(***************************************************************************)
text_vars == << input, pc, html, stage_in, code_blocks, code_counter, scan_vars,
                html_content, ret >>

\* line 96: open(temp_file, 'w') creates the file or empties it
OpenTemp ==
    /\ save_pc = "open"
    /\ temp_file' = [exists |-> TRUE, data |-> << >>]
    /\ save_pc' = "dump"
    /\ UNCHANGED << status_file, status, previous, loaded, text_vars, main_vars >>

\* lines 98-99: json.dump and f.write put the text in the file piece by
\* piece; the with block ends after the last piece
DumpTemp ==
    /\ save_pc = "dump"
    /\ LET n == Len(temp_file.data) + 1
       IN  /\ temp_file' = [temp_file EXCEPT !.data = @ \o << Dump(status)[n] >>]
           /\ save_pc' = IF n = Len(Dump(status)) THEN "verify" ELSE "dump"
    /\ UNCHANGED << status_file, status, previous, loaded, text_vars, main_vars >>

\* lines 102-103: json.load of the temp file; lines 110-116 when it raises
VerifyTemp ==
    /\ save_pc = "verify"
    /\ IF Loads(Strip(temp_file.data)).ok
       THEN save_pc' = "remove" /\ UNCHANGED temp_file
       ELSE save_pc' = "raised" /\ temp_file' = NoFile
    /\ UNCHANGED << status_file, status, previous, loaded, text_vars, main_vars >>

\* lines 106-107
RemoveStatus ==
    /\ save_pc = "remove"
    /\ status_file' = IF status_file.exists THEN NoFile ELSE status_file
    /\ save_pc' = "rename"
    /\ UNCHANGED << temp_file, status, previous, loaded, text_vars, main_vars >>

\* line 108
RenameTemp ==
    /\ save_pc = "rename"
    /\ status_file' = temp_file
    /\ temp_file' = NoFile
    /\ save_pc' = "returned"
    /\ UNCHANGED << status, previous, loaded, text_vars, main_vars >>

\* the process stops between two statements of save_status
Stop ==
    /\ save_pc \in {"open", "dump", "verify", "remove", "rename"}
    /\ save_pc' = "stopped"
    /\ UNCHANGED << status_file, temp_file, status, previous, loaded, text_vars, main_vars >>

\* load_status (lines 63-85) in the next run
LoadStatus ==
    /\ save_pc \in {"stopped", "returned"}
    /\ save_pc' = "loaded"
    /\ LET content == Strip(status_file.data)
       IN  IF ~status_file.exists \/ content = << >>
           THEN loaded' = DefaultStatus /\ UNCHANGED status_file
           ELSE IF Loads(content).ok
           THEN loaded' = Loads(content).value /\ UNCHANGED status_file
           ELSE loaded' = DefaultStatus /\ status_file' = NoFile
    /\ UNCHANGED << temp_file, status, previous, text_vars, main_vars >>

NextStatus ==
    \/ OpenTemp
    \/ DumpTemp
    \/ VerifyTemp
    \/ RemoveStatus
    \/ RenameTemp
    \/ Stop
    \/ LoadStatus

(***************************************************************************)
(* The state machine of main (lines 1019-1167), with get_next_topic (lines *)
(* 167-187) and publish_to_blogger (lines 929-1014), run after run.  A     *)
(* topic is written by its day alone; save_status is one step here         *)
(***************************************************************************)
\* the most runs of main in a behaviour
MaxRuns == 2

\* max_retries (line 958)
MaxRetries == 3

\* load_status() (lines 63-85) for the file f
LoadedStatus(f) ==
    LET content == Strip(f.data)
    IN  IF f.exists /\ content # << >> /\ Loads(content).ok THEN Loads(content).value
        ELSE DefaultStatus

\* a return statement of main: the run is finished with the result ok for
\* the topic t, and leaves the status file f
Returns(ok, t, f) ==
    /\ log' = Append(log, [topic |-> t, ok |-> ok, next_day |-> LoadedStatus(f).next_day])
    /\ main_pc' = IF Len(log) + 1 < MaxRuns THEN "start" ELSE "ended"

\* lines 1019-1045: a run of main begins; without the keys it returns False
StartRun ==
    /\ main_pc = "start"
    /\ topic' = 0
    /\ attempt' = 0
    /\ sent' = << >>
    /\ success' = "none"
    /\ IF configured THEN main_pc' = "topic" /\ UNCHANGED log ELSE Returns(FALSE, 0, status_file)
    /\ UNCHANGED << topics, configured, status_vars, text_vars >>

\* lines 1049-1053 and get_next_topic (lines 167-187): the first topic of the
\* day next_day; past the last day, next_day 1 is saved and the first topic
\* of the file is taken; otherwise None, and main returns False
GetNextTopic ==
    /\ main_pc = "topic"
    /\ LET content  == Strip(status_file.data)
           kept     == IF status_file.exists /\ content # << >> /\ ~Loads(content).ok
                       THEN NoFile ELSE status_file
           next_day == LoadedStatus(status_file).next_day
           found    == {i \in DOMAIN topics : topics[i] = next_day}
           max_day  == CHOOSE d \in {topics[i] : i \in DOMAIN topics} :
                           \A i \in DOMAIN topics : topics[i] <= d
       IN  IF found # {}
           THEN /\ topic' = CHOOSE i \in found : \A j \in found : i <= j
                /\ status_file' = kept
                /\ main_pc' = "generate"
                /\ UNCHANGED log
           ELSE IF next_day > max_day
           THEN /\ topic' = 1
                /\ status_file' = [exists |-> TRUE, data |-> Dump([next_day |-> 1])]
                /\ main_pc' = "generate"
                /\ UNCHANGED log
           ELSE /\ topic' = 0
                /\ status_file' = kept
                /\ Returns(FALSE, 0, kept)
    /\ UNCHANGED << topics, configured, attempt, sent, success, temp_file, status, save_pc,
                    previous, loaded, text_vars >>

\* lines 1069-1073: generate_blog_content returns the content or None
GenerateContent ==
    /\ main_pc = "generate"
    /\ \E content \in {"None", "content"} :
           IF content = "None" THEN Returns(FALSE, topic, status_file)
           ELSE main_pc' = "publish" /\ UNCHANGED log
    /\ UNCHANGED << topics, configured, topic, attempt, sent, success, status_vars, text_vars >>

\* lines 929-959: the call of publish_to_blogger up to its loop
StartPublish ==
    /\ main_pc = "publish"
    /\ attempt' = 0
    /\ sent' = << >>
    /\ IF configured THEN main_pc' = "post" /\ UNCHANGED success
       ELSE main_pc' = "published" /\ success' = "false"
    /\ UNCHANGED << topics, configured, topic, log, status_vars, text_vars >>

\* one iteration of the loop of lines 961-1012.  The token request raises
\* (no POST is sent), requests.post raises, the response has a status 2xx
\* and a body that response.json() reads, a status 2xx and a body it does
\* not read (it raises), a status 4xx, or a status 5xx
PostAttempt ==
    /\ main_pc = "post"
    /\ \E outcome \in {"token_error", "no_response", "ok", "ok_unread", "client_error",
                       "server_error"} :
           /\ sent' = IF outcome = "token_error" THEN sent ELSE Append(sent, outcome)
           /\ IF outcome = "ok"
              THEN success' = "true" /\ main_pc' = "published" /\ UNCHANGED attempt
              ELSE IF outcome = "client_error"
              THEN success' = "false" /\ main_pc' = "published" /\ UNCHANGED attempt
              ELSE IF attempt < MaxRetries - 1
              THEN attempt' = attempt + 1 /\ UNCHANGED << success, main_pc >>
              ELSE success' = "false" /\ main_pc' = "published" /\ UNCHANGED attempt
    /\ UNCHANGED << topics, configured, topic, log, status_vars, text_vars >>

\* lines 1134-1167: without success main returns False; with it the status
\* is loaded, next_day is set to day + 1, the status is saved
FinishRun ==
    /\ main_pc = "published"
    /\ IF success = "true"
       THEN /\ status_file' = [exists |-> TRUE, data |-> Dump([next_day |-> topics[topic] + 1])]
            /\ Returns(TRUE, topic, status_file')
       ELSE /\ UNCHANGED status_file
            /\ Returns(FALSE, topic, status_file)
    /\ UNCHANGED << topics, configured, topic, attempt, sent, success, temp_file, status,
                    save_pc, previous, loaded, text_vars >>

NextMain ==
    \/ StartRun
    \/ GetNextTopic
    \/ GenerateContent
    \/ StartPublish
    \/ PostAttempt
    \/ FinishRun

(***************************************************************************)
(* The function as one operator: what a call returns for the argument x    *)
(***************************************************************************)
\* convert_markdown_to_html(x), lines 376-696: the stages applied in turn,
\* each to the value the one before it left
Transform(x) ==
    LET Staged(F(_), v) == CHOOSE out \in {F(w) : w \in {v}} : TRUE
        \* the loop of lines 624-673 from line n on, with the two flags
        RECURSIVE ScanFrom(_, _, _, _)
        ScanFrom(ls, n, inb, inn) ==
            IF n > Len(ls) THEN CloseRemaining(inb, inn)
            ELSE LET st == ScanStep(ls[n], inb, inn)
                 IN  st.out \o ScanFrom(ls, n + 1, st.inb, st.inn)
        \* lines 619-675
        Lists(t) == Join(ScanFrom(Split(t, << NL >>), 1, FALSE, FALSE), << NL >>)
        Custom(t) ==
            Staged(TimelineSub, Staged(FaqSub, Staged(ProsConsSub,
                Staged(TableSub, Staged(InfoBoxes, Staged(CodeSub, t))))))
        Marked(t) == Staged(Links, Staged(Italic, Staged(Bold, Staged(Headings, t))))
        Wrapped(t) == Staged(Paragraphs, Staged(Lists, t))
        Restored(t) == Restore(t, CodeBlocksOf(x))
    IN  Container(Staged(Restored, Wrapped(Marked(Custom(x)))))

(***************************************************************************)
(* Inputs: every concatenation of at most n fragments of a set             *)
(***************************************************************************)
SeqsUpTo(F, n) == UNION {[1..k -> F] : k \in 0..n}
TextsOf(F, n) == {Concat(fs) : fs \in SeqsUpTo(F, n)}

(***************************************************************************)
(* Specifications.  They differ in the set the argument is drawn from.     *)
(***************************************************************************)
\* a table whose data row has fewer cells than its header
RaggedTable ==
    << Pipe, "a", Pipe, "b", Pipe, NL, Pipe, "-", Pipe, "-", Pipe, NL, Pipe, "1", Pipe >>

\* texts that mix the constructs: an unclosed fence, a tag without a body,
\* a ragged table, a timeline
MaxFragsMix == 4
FragsMix ==
    {Fence, << NL >>, TagTIP, RaggedTable, TagTIMELINE \o << NL, "-", " ", "a" >>, << "x" >>}
Init == InitWith(TextsOf(FragsMix, MaxFragsMix))
Spec == Init /\ [][Next]_vars

\* texts around code fences: an opening fence line, a bare fence, a body with
\* leading indentation, Markdown and characters to escape, a [FAQ] tag, and
\* the literal text of the first placeholder
MaxFragsCode == 5
FragsCode ==
    {Fence \o << NL >>, Fence, << " ", "*", "x", "*", "&", "<", NL >>, TagFAQ \o << NL >>,
     Placeholder(0)}
InitCode == InitWith(TextsOf(FragsCode, MaxFragsCode))
SpecCode == InitCode /\ [][Next]_vars

(***************************************************************************)
(* Helpers of the properties                                               *)
(***************************************************************************)
\* the number of occurrences of p in s (overlapping ones included)
Occurrences(s, p) == Cardinality({i \in 1..Len(s) : StartsWithAt(s, i, p)})

EndsWith(s, p) == Len(s) >= Len(p) /\ SubSeq(s, Len(s) - Len(p) + 1, Len(s)) = p

\* the statements after the code-fence stage, up to the paragraph stage:
\* the working text is html
AfterExtraction ==
    {"info", "table", "proscons", "faq", "timeline", "headings", "bold", "italic", "links",
     "lists", "scan", "paragraphs"}

(***************************************************************************)
(* C1  convert_markdown_to_html raises for no string and returns an HTML   *)
(* string: the call never leaves by an exception, and what it returns is   *)
(* the container div around the converted text.                            *)
(***************************************************************************)
C1_NeverRaises ==
    /\ pc # "raised"
    /\ pc = "done" => /\ StartsWith(ret, PageTpl.ContainerOpen)
                      /\ EndsWith(ret, PageTpl.ContainerClose)

\* the call has returned for a text with a ragged table, a tag without body
\* and an unclosed fence
C1_Witness ==
    /\ pc = "done"
    /\ input = RaggedTable \o << NL >> \o TagTIP \o Fence

(***************************************************************************)
(* C2  Code fence immunity: the text inside a rendered code container,     *)
(* un-escaped, equals the body of the fence it was made from, character by *)
(* character, leading indentation included.  The body is the text between  *)
(* the opening fence line and the line terminator before the closing       *)
(* fence.                                                                  *)
(***************************************************************************)
Unescape(t) ==
    Replace(Replace(Replace(t, << "&", "l", "t", ";" >>, << "<" >>),
                    << "&", "g", "t", ";" >>, << ">" >>),
            << "&", "a", "m", "p", ";" >>, << "&" >>)

\* the text between the opening and the closing tags of a rendered code block
RenderedCode(block) ==
    SubSeq(block.code_html, Len(CodeTpl.CodeHtmlOpen) + 1,
           Len(block.code_html) - Len(CodeTpl.CodeHtmlClose))

\* the body of the k-th fence of the input
FencedBody(k) ==
    LET g2 == CodeMatch(input, CodeSpans(input)[k].s).g2
    IN  IF EndsWith(g2, << NL >>) THEN SubSeq(g2, 1, Len(g2) - 1) ELSE g2

C2_FenceBodyKept ==
    pc # "code" =>
        \A k \in DOMAIN code_blocks : Unescape(RenderedCode(code_blocks[k])) = FencedBody(k)

(***************************************************************************)
(* C3  Every placeholder made by the code-fence stage is in the working    *)
(* text after each later stage, and at the end every extracted code block  *)
(* is in the returned text, once.                                          *)
(***************************************************************************)
C3_PlaceholdersKept ==
    /\ pc \in AfterExtraction =>
           \A k \in DOMAIN code_blocks : Occurrences(html, code_blocks[k].placeholder) >= 1
    /\ pc = "restore" =>
           \A k \in DOMAIN code_blocks :
               Occurrences(html_content, code_blocks[k].placeholder) >= 1
    /\ pc = "done" => Occurrences(ret, CodeTpl.CodeHtmlOpen) = Len(code_blocks)

(***************************************************************************)
(* C4  No placeholder made by the code-fence stage is left in the text     *)
(* that is returned.                                                       *)
(***************************************************************************)
C4_NoPlaceholderLeft ==
    /\ pc = "return" =>
           \A k \in DOMAIN code_blocks :
               Occurrences(html_content, code_blocks[k].placeholder) = 0
    /\ pc = "done" =>
           \A k \in DOMAIN code_blocks : Occurrences(ret, code_blocks[k].placeholder) = 0

\* the call has returned for a text with two fences, both rendered
C4_Witness ==
    /\ pc = "done"
    /\ Len(code_blocks) = 2
    /\ Occurrences(ret, CodeTpl.CodeHtmlOpen) = 2

(***************************************************************************)
(* C5  No placeholder collides with text of the input: text outside every  *)
(* fence is never replaced by a code block, so the returned text holds no  *)
(* more code blocks than there are fences.                                 *)
(***************************************************************************)
C5_NoCollision ==
    pc = "done" => Occurrences(ret, CodeTpl.CodeHtmlOpen) <= Len(code_blocks)

(***************************************************************************)
(* C6  After the code-fence stage the working text holds no run of three   *)
(* backquotes, whatever the fences of the input look like.                 *)
(***************************************************************************)
C6_NoFenceLeft ==
    pc = "info" => Occurrences(html, Fence) = 0

(***************************************************************************)
(* Texts around a timeline: the tag line, a bullet line with two " - ", a  *)
(* bullet without one, a newline, a bare bullet marker and a space         *)
(***************************************************************************)
MaxFragsTimeline == 4
FragsTimeline ==
    {TagTIMELINE \o << NL >>,
     << "-", " ", "a", " ", "-", " ", "b", " ", "-", " ", "c", NL >>,
     << "-", " ", "a" >>, << NL >>, << "-", " " >>, << " " >>}
InitTimeline == InitWith(TextsOf(FragsTimeline, MaxFragsTimeline))
SpecTimeline == InitTimeline /\ [][Next]_vars

\* the lines of a text, and what a timeline region is in terms of lines
LinesOf(s) == Split(s, << NL >>)
IsTimelineTagLine(l) == EndsWith(l, TagTIMELINE)
\* a bullet line: the marker "- " and at least one more character
IsBulletLineText(l) == Len(l) >= 3 /\ l[1] = "-" /\ l[2] = " "
\* the last line of the run of bullet lines that starts at line i
RECURSIVE BulletRunLast(_, _)
BulletRunLast(ls, i) ==
    IF i < Len(ls) /\ IsBulletLineText(ls[i + 1]) THEN BulletRunLast(ls, i + 1) ELSE i

\* the text of a bullet line after its marker, without trailing whitespace
TrimRight(t) ==
    LET ks == {k \in 1..Len(t) : ~IsSpace(t[k])}
    IN  IF ks = {} THEN << >> ELSE SubSeq(t, 1, CHOOSE k \in ks : \A m \in ks : m <= k)
BulletText(l) == TrimRight(SubSeq(l, 3, Len(l)))

\* the first " - " of a text (0: none), its title and its description
FirstDash(t) ==
    LET ks == {k \in 1..Len(t) : StartsWithAt(t, k, << " ", "-", " " >>)}
    IN  IF ks = {} THEN 0 ELSE CHOOSE k \in ks : \A m \in ks : k <= m
TitleOf(t) == IF FirstDash(t) = 0 THEN t ELSE SubSeq(t, 1, FirstDash(t) - 1)
DescOf(t) == IF FirstDash(t) = 0 THEN << >> ELSE SubSeq(t, FirstDash(t) + 3, Len(t))

\* a timeline block with one entry for each text of ts
EntryOf(idx, n, t) ==
    TimelineEntryOpen(idx, n) \o TitleOf(t) \o TimelineTpl.TimelineTitleClose
    \o (IF DescOf(t) = << >> THEN << >>
        ELSE TimelineTpl.TimelineDescOpen \o DescOf(t) \o TimelineTpl.TimelineDescClose)
    \o TimelineTpl.TimelineEntryClose
BlockOf(ts) ==
    TimelineTpl.TimelineOpen \o Concat([k \in 1..Len(ts) |-> EntryOf(k - 1, Len(ts), ts[k])])
    \o TimelineTpl.TimelineClose

\* the texts of the bullet lines i..j; blank ones are kept when all is TRUE
RECURSIVE EntryTexts(_, _, _, _)
EntryTexts(ls, i, j, all) ==
    IF i > j THEN << >>
    ELSE (IF all \/ BulletText(ls[i]) # << >> THEN << BulletText(ls[i]) >> ELSE << >>)
         \o EntryTexts(ls, i + 1, j, all)

\* the lines the timeline stage is to leave of the lines ls, from line i on:
\* a tag line followed by bullet lines keeps what precedes the tag and gets
\* the block; the bullet lines go, and so does a blank line right after them
RECURSIVE TimelineLines(_, _, _)
TimelineLines(ls, i, all) ==
    IF i > Len(ls) THEN << >>
    ELSE IF IsTimelineTagLine(ls[i]) /\ i < Len(ls) /\ IsBulletLineText(ls[i + 1])
    THEN LET j == BulletRunLast(ls, i + 1)
             next == IF j < Len(ls) /\ ls[j + 1] = << >> THEN j + 2 ELSE j + 1
         IN  << SubSeq(ls[i], 1, Len(ls[i]) - Len(TagTIMELINE))
                \o BlockOf(EntryTexts(ls, i + 1, j, all)) >>
             \o TimelineLines(ls, next, all)
    ELSE << ls[i] >> \o TimelineLines(ls, i + 1, all)

(***************************************************************************)
(* C7  As claimed: a [TIMELINE] tag line followed by n consecutive bullet  *)
(* lines becomes one timeline block of exactly n entries, in order, the    *)
(* title and the description of an entry split at the first " - ".         *)
(***************************************************************************)
C7_EntryPerBulletLine ==
    pc = "headings" => html = Join(TimelineLines(LinesOf(stage_in), 1, TRUE), << NL >>)

(***************************************************************************)
(* C7  Amended: a [TIMELINE] tag line followed by consecutive bullet lines *)
(* becomes one timeline block with one entry, in order, for each of those  *)
(* lines whose text after the marker is not blank; the text of an entry is *)
(* the line's without trailing whitespace, split at its first " - " into   *)
(* title and description, and all of it the title when it has no " - ".    *)
(***************************************************************************)
C7_EntryPerNonBlankBullet ==
    pc = "headings" => html = Join(TimelineLines(LinesOf(stage_in), 1, FALSE), << NL >>)

\* the timeline stage has run on the tag and two bullet lines, the first
\* with two " - ", and left a block of two entries
C7_Witness ==
    /\ pc = "headings"
    /\ stage_in = TagTIMELINE
                  \o << NL, "-", " ", "a", " ", "-", " ", "b", " ", "-", " ", "c", NL, "-", " ", "a" >>
    /\ html = BlockOf(<< << "a", " ", "-", " ", "b", " ", "-", " ", "c" >>, << "a" >> >>)
    /\ TitleOf(<< "a", " ", "-", " ", "b", " ", "-", " ", "c" >>) = << "a" >>

(***************************************************************************)
(* Texts around lists: a bullet, a numbered item, a newline, plain text    *)
(* and a space                                                             *)
(***************************************************************************)
MaxFragsLists == 5
FragsLists ==
    {<< "-", " ", "a" >>, << "1", ".", " ", "b" >>, << NL >>, << "x" >>, << " " >>}
InitLists == InitWith(TextsOf(FragsLists, MaxFragsLists))
SpecLists == InitLists /\ [][Next]_vars

\* the lines ls from line i on, read with the list that is open ("none", "ul"
\* or "ol"): a list opens only when none is open, closes only when it is the
\* open one, an item lies in the open list of its kind, and none is open at
\* the end
RECURSIVE ListsNested(_, _, _)
ListsNested(ls, i, open) ==
    IF i > Len(ls) THEN open = "none"
    ELSE IF ls[i] = ListTpl.UlOpen THEN open = "none" /\ ListsNested(ls, i + 1, "ul")
    ELSE IF ls[i] = ListTpl.OlOpen THEN open = "none" /\ ListsNested(ls, i + 1, "ol")
    ELSE IF ls[i] = ListTpl.UlClose THEN open = "ul" /\ ListsNested(ls, i + 1, "none")
    ELSE IF ls[i] = ListTpl.OlClose THEN open = "ol" /\ ListsNested(ls, i + 1, "none")
    ELSE IF StartsWith(ls[i], ListTpl.BulletLiOpen)
    THEN open = "ul" /\ ListsNested(ls, i + 1, open)
    ELSE IF StartsWith(ls[i], ListTpl.NumberedLiOpen)
    THEN open = "ol" /\ ListsNested(ls, i + 1, open)
    ELSE ListsNested(ls, i + 1, open)

\* how many of the lines ls are the line l
LinesEqual(ls, l) == Cardinality({i \in 1..Len(ls) : ls[i] = l})

(***************************************************************************)
(* C8  List closure: the lines the list scanner leaves hold as many        *)
(* closing as opening tags of each list kind, and every item lies between  *)
(* the opening tag and the closing tag of a list of its kind, also when    *)
(* the text ends inside a list.                                            *)
(***************************************************************************)
C8_ListsClosed ==
    pc = "paragraphs" =>
        /\ LinesEqual(result, ListTpl.UlOpen) = LinesEqual(result, ListTpl.UlClose)
        /\ LinesEqual(result, ListTpl.OlOpen) = LinesEqual(result, ListTpl.OlClose)
        /\ ListsNested(result, 1, "none")

\* the scanner has finished a text that ends inside a numbered list that
\* follows a bullet list
C8_Witness ==
    /\ pc = "paragraphs"
    /\ input = << "-", " ", "a", NL, "1", ".", " ", "b" >>
    /\ result = << ListTpl.UlOpen, BulletLi(<< "a" >>), ListTpl.UlClose,
                   ListTpl.OlOpen, NumberedLi(<< "b" >>), ListTpl.OlClose >>

(***************************************************************************)
(* Texts around pros and cons: a [PROS] tag with a bullet, a [CONS] tag    *)
(* with a bullet, a [CONS] tag alone, a further bullet line and a newline  *)
(***************************************************************************)
MaxFragsProsCons == 5
FragsProsCons ==
    {TagPROS \o << NL, "-", " ", "a" >>, TagCONS \o << NL, "-", " ", "b" >>,
     TagCONS \o << NL >>, << "-", " ", "c", NL >>, << NL >>}
InitProsCons == InitWith(TextsOf(FragsProsCons, MaxFragsProsCons))
SpecProsCons == InitProsCons /\ [][Next]_vars

\* the text has a [PROS] tag line, bullet lines, a number of blank lines that
\* is in gaps, the line [CONS] and a bullet line
ProsThenCons(s, gaps) ==
    LET ls == LinesOf(s)
    IN  \E i \in 1..Len(ls) :
            /\ EndsWith(ls[i], TagPROS)
            /\ i < Len(ls) /\ IsBulletLineText(ls[i + 1])
            /\ LET k == BulletRunLast(ls, i + 1)
               IN  \E g \in gaps :
                       /\ k + g + 2 <= Len(ls)
                       /\ \A m \in (k + 1)..(k + g) : ls[m] = << >>
                       /\ ls[k + g + 1] = TagCONS
                       /\ IsBulletLineText(ls[k + g + 2])

GridIn(s) == Occurrences(s, ProsConsTpl.GridOpen) > 0

(***************************************************************************)
(* C9  As claimed: when the bullet lines of a [PROS] tag are not followed, *)
(* after at most one blank line, by a [CONS] tag with its bullet lines,    *)
(* the pros/cons stage leaves the text as it is.                           *)
(***************************************************************************)
C9_UntouchedBeyondOneBlankLine ==
    pc = "faq" => (~ProsThenCons(stage_in, {0, 1}) => html = stage_in)

(***************************************************************************)
(* C9  Amended: the pros/cons stage makes a grid exactly when the bullet   *)
(* lines of a [PROS] tag are followed, after any number of blank lines and *)
(* nothing else, by a [CONS] tag with its bullet lines; otherwise it       *)
(* leaves the text as it is, tags included, and makes no grid.             *)
(***************************************************************************)
C9_GridOrUntouched ==
    pc = "faq" =>
        IF ProsThenCons(stage_in, 0..Len(stage_in))
        THEN GridIn(html)
        ELSE html = stage_in /\ ~GridIn(html)

\* the stage has run on a [PROS] region followed by a [CONS] tag without
\* bullets and has left both tags in the text
C9_Witness ==
    /\ pc = "faq"
    /\ stage_in = TagPROS \o << NL, "-", " ", "a", NL >> \o TagCONS \o << NL >>
    /\ html = stage_in

(***************************************************************************)
(* Texts around tables: a header of two cells, its separator, rows of one  *)
(* and two cells, a row without its newline, a plain line and a newline    *)
(***************************************************************************)
MaxFragsTable == 4
FragsTable ==
    {<< Pipe, "a", Pipe, "b", Pipe, NL >>, << Pipe, "-", Pipe, "-", Pipe, NL >>,
     << Pipe, "1", Pipe, NL >>, << Pipe, "1", Pipe, "2", Pipe, NL >>,
     << Pipe, "1", Pipe, "2", Pipe >>, << "x", NL >>, << NL >>}
InitTable == InitWith(TextsOf(FragsTable, MaxFragsTable))
SpecTable == InitTable /\ [][Next]_vars

ThSyms == {TableTpl.ThOpenInner[1], TableTpl.ThOpenLast[1]}
TdSyms ==
    {TableTpl.TdOpenFirstInner[1], TableTpl.TdOpenFirstLast[1],
     TableTpl.TdOpenOtherInner[1], TableTpl.TdOpenOtherLast[1]}
TrSyms == {TableTpl.TrOpenEven[1], TableTpl.TrOpenOdd[1]}

\* the cells of the row of the rendered text s that opens at p
RowCells(s, p) ==
    LET q == IndexOf(s, TableTpl.TrClose[1], p)
    IN  Cardinality({m \in p..q : m <= Len(s) /\ s[m] \in TdSyms})
\* the cells of the header of the table that holds position p
HeaderCells(s, p) ==
    LET t == CHOOSE t \in 1..p : s[t] = "<thead>" /\ \A u \in (t + 1)..p : s[u] # "<thead>"
        q == IndexOf(s, TableTpl.TrClose[1], t)
    IN  Cardinality({m \in t..q : s[m] \in ThSyms})

(***************************************************************************)
(* C10  Table shape tolerance: every data row of a rendered table has      *)
(* exactly as many cells as the header row of its table.                   *)
(***************************************************************************)
C10_RowsAsWideAsHeader ==
    pc = "proscons" =>
        \A p \in 1..Len(html) : html[p] \in TrSyms => RowCells(html, p) = HeaderCells(html, p)

(***************************************************************************)
(* C11: the lines of a table block                                         *)
(***************************************************************************)
\* a line that starts with a pipe and has a later pipe after a first cell
IsPipeRow(l) == Len(l) >= 3 /\ l[1] = Pipe /\ \E p \in 3..Len(l) : l[p] = Pipe
\* a pipe-delimited line: it starts and ends with a pipe
IsPipeLine(l) == IsPipeRow(l) /\ l[Len(l)] = Pipe
\* a separator row: a pipe-delimited line of dashes, colons, pipes and blanks
IsSeparatorRow(l) ==
    IsPipeLine(l) /\ \A k \in 2..(Len(l) - 1) : l[k] \in SepClass
\* the index of the last pipe of a pipe row
LastPipeOf(l) == CHOOSE p \in 1..Len(l) :
    l[p] = Pipe /\ \A q \in (p + 1)..Len(l) : l[q] # Pipe
\* the cells of a pipe row: the stripped texts between its pipes
CellsOfLine(l) ==
    LET parts == Split(SubSeq(l, 1, LastPipeOf(l)), << Pipe >>)
    IN  [c \in 1..(Len(parts) - 2) |-> Strip(parts[c + 1])]
\* the last line of the run of pipe rows that starts at line i
RECURSIVE PipeRunLast(_, _)
PipeRunLast(ls, i) ==
    IF IsPipeLine(ls[i]) /\ i < Len(ls) /\ IsPipeRow(ls[i + 1])
    THEN PipeRunLast(ls, i + 1) ELSE i
\* line i is the header of a block: the next line is a separator row that
\* is not the last line
IsBlockHeader(ls, i) ==
    i + 1 < Len(ls) /\ IsPipeLine(ls[i]) /\ IsSeparatorRow(ls[i + 1])
\* the lines after the table stage: each block is one table whose header is
\* the block's first line and whose rows are the lines after the separator;
\* with bare, a header and a separator alone make a table without rows
RECURSIVE TableBlockLines(_, _, _)
TableBlockLines(ls, i, bare) ==
    IF i > Len(ls) THEN << >>
    ELSE IF IsBlockHeader(ls, i) /\ (bare \/ IsPipeRow(ls[i + 2]))
    THEN LET j == IF IsPipeRow(ls[i + 2]) THEN PipeRunLast(ls, i + 2) ELSE i + 1
             rows == [k \in 1..(j - i - 1) |-> CellsOfLine(ls[i + 1 + k])]
             table == TableHtml(CellsOfLine(ls[i]), rows)
             after == SubSeq(ls[j], LastPipeOf(ls[j]) + 1, Len(ls[j]))
             rest == TableBlockLines(ls, j + 1, bare)
         IN  IF after = << >> /\ j < Len(ls)
             THEN << table \o Head(rest) >> \o Tail(rest)
             ELSE << table \o after >> \o rest
    ELSE << ls[i] >> \o TableBlockLines(ls, i + 1, bare)

\* C11: every block of pipe-delimited lines whose second line is a separator
\* row is rendered as one table, its header cells from the first line and
\* one row for each line after the separator, with that line's cells
C11_BlockIsOneTable ==
    pc = "proscons"
        => html = Join(TableBlockLines(LinesOf(stage_in), 1, TRUE), << NL >>)

(***************************************************************************)
(* C12: texts of bullet lines with either marker, newlines, plain text and *)
(* a space                                                                 *)
(***************************************************************************)
MaxFragsBullets == 4
FragsBullets ==
    {<< "-", " ", "a", NL >>, << "*", " ", "b", NL >>, << NL >>, << "x" >>, << " " >>}
InitBullets == InitWith(TextsOf(FragsBullets, MaxFragsBullets))
SpecBullets == InitBullets /\ [][Next]_vars

\* a bullet line of the input: a marker, a space and an item that is not blank
IsBulletInput(l) ==
    Len(l) >= 3 /\ l[1] \in {"-", "*"} /\ l[2] = " " /\ Strip(SubSeq(l, 3, Len(l))) # << >>
\* a line of plain text: letters and spaces, not blank
IsPlainText(l) ==
    Strip(l) # << >> /\ \A k \in 1..Len(l) : l[k] \in Lower \cup {" "}
\* a run of bullet lines, one blank line and a line of plain text
IsBulletsThenPlain(ls) ==
    /\ Len(ls) >= 3
    /\ \A k \in 1..(Len(ls) - 2) : IsBulletInput(ls[k])
    /\ ls[Len(ls) - 1] = << >>
    /\ IsPlainText(ls[Len(ls)])
\* one list with an item for every bullet line, a blank line, one paragraph
ListThenParagraph(ls) ==
    Join(<< ListTpl.UlOpen >>
         \o [k \in 1..(Len(ls) - 2) |->
                ListTpl.BulletLiOpen \o Strip(SubSeq(ls[k], 3, Len(ls[k]))) \o ListTpl.BulletLiClose]
         \o << ListTpl.UlClose, << >>,
               PageTpl.ParaOpen \o Strip(ls[Len(ls)]) \o PageTpl.ParaClose >>,
         << NL >>)

\* C12: n consecutive bullet lines, a blank line and a line of plain text
\* are returned as exactly one bullet list with n items followed by one
\* separate paragraph that holds the plain text
C12_ListThenParagraph ==
    (pc = "done" /\ IsBulletsThenPlain(LinesOf(input)))
        => ret = Container(ListThenParagraph(LinesOf(input)))

(***************************************************************************)
(* C13, C14: texts of one line or of two adjacent lines, each a run of up  *)
(* to MaxHashes "#" followed by nothing, by text, by a space and text, or  *)
(* by a space and text that starts with a "#" again                        *)
(***************************************************************************)
MaxHashes == 7
HeadingBodies == {<< >>, << "x" >>, << " ", "x" >>, << " ", "#", " ", "x" >>}
HeadingLines == {Hashes(k) \o b : k \in 0..MaxHashes, b \in HeadingBodies}
HeadingTexts == HeadingLines \cup {a \o << NL >> \o b : a, b \in HeadingLines}
InitHeadings == InitWith(HeadingTexts)
SpecHeadings == InitHeadings /\ [][Next]_vars

\* the number of "#" the line starts with
RECURSIVE LeadingHashes(_)
LeadingHashes(l) == IF l # << >> /\ l[1] = "#" THEN 1 + LeadingHashes(Tail(l)) ELSE 0
\* a heading line of level k: exactly k "#", a space and a text
IsHeadingLine(l, k) ==
    k \in 1..6 /\ LeadingHashes(l) = k /\ Len(l) >= k + 2 /\ l[k + 1] = " "
HeadingText(l, k) == SubSeq(l, k + 2, Len(l))
\* the opening tags of the three deepest levels
DeepHeadingTags == {HeadingTpl.H4Open[1], HeadingTpl.H5Open[1], HeadingTpl.H6Open[1]}

\* C13: a heading line of level 1, 2 or 3 becomes the heading element of its
\* level, and no heading element of level 4, 5 or 6 is ever produced
C13_DeepLevelsAreNotHeadings ==
    pc = "bold" =>
        LET ls == LinesOf(stage_in)
            out == LinesOf(html)
        IN  /\ Len(out) = Len(ls)
            /\ \A n \in 1..Len(ls) : \A k \in 1..3 :
                   IsHeadingLine(ls[n], k)
                       => out[n] = HeadingOpen[k] \o HeadingText(ls[n], k) \o HeadingClose[k]
            /\ \A i \in 1..Len(html) : html[i] \notin DeepHeadingTags

\* the line as the heading stage leaves it: the element of its own level
\* around its text when it is a heading line, the line itself otherwise
HeadingLineOut(l) ==
    IF \E k \in 1..6 : IsHeadingLine(l, k)
    THEN LET k == LeadingHashes(l)
         IN  HeadingOpen[k] \o HeadingText(l, k) \o HeadingClose[k]
    ELSE l

\* C14: every line that starts with exactly k "#" and a space, k from 1 to
\* 6, is rendered once, as the heading of level k around its text, alone or
\* next to a line of another level; every other line is left as it is
C14_EachLevelOnce ==
    pc = "bold" =>
        html = Join([n \in 1..Len(LinesOf(stage_in)) |-> HeadingLineOut(LinesOf(stage_in)[n])],
                    << NL >>)

\* a level-3 heading followed by a level-6 heading, each in its own element
C14_Witness ==
    /\ pc = "bold"
    /\ stage_in = Hashes(3) \o << " ", "x", NL >> \o Hashes(6) \o << " ", "x" >>
    /\ html = HeadingTpl.H3Open \o << "x" >> \o HeadingTpl.H3Close \o << NL >>
              \o HeadingTpl.H6Open \o << "x" >> \o HeadingTpl.H6Close

(***************************************************************************)
(* C15: texts of custom tags, newlines, a bullet line and plain text       *)
(***************************************************************************)
MaxFragsTags == 4
FragsTags ==
    {TagTIP, TagFAQ, TagTIMELINE, TagPROS, TagCONS, << NL >>, << "x" >>, << "-", " ", "a" >>}
InitTags == InitWith(TextsOf(FragsTags, MaxFragsTags))
SpecTags == InitTags /\ [][Next]_vars

\* nothing stands on the line after the tag that ends before p: the tag is
\* not alone on its line, or it is the last line, or a blank line follows
NoBodyAt(s, p) ==
    \/ p > Len(s)
    \/ s[p] # NL
    \/ p + 1 > Len(s)
    \/ s[p + 1] = NL
\* the tags whose region is the lines right after the tag line
BodyTags == {TagTIP, TagWARNING, TagBEST_PRACTICE, TagKEY_TAKEAWAY, TagPROS, TagCONS, TagTIMELINE}
\* no tag of the text has a region of the required shape: the body tags have
\* no body, and the text holds no question for a [FAQ] tag
OnlyMalformedTags(s) ==
    /\ \A t \in BodyTags : \A i \in 1..Len(s) :
           StartsWithAt(s, i, t) => NoBodyAt(s, i + Len(t))
    /\ \A i \in 1..Len(s) : ~StartsWithAt(s, i, << "Q", ":" >>)

\* C15: when no custom tag of the text has a region of the required shape,
\* the stages of the custom markup leave the text as it is: the tags and the
\* text around them stay, nothing is dropped or rendered as a block
C15_MalformedStaysLiteral ==
    (pc = "headings" /\ OnlyMalformedTags(input)) => html = input

(***************************************************************************)
(* C16: the argument is what a first call returned, for texts of a fence   *)
(* with its first line, a closing fence, newlines, plain text, a bullet    *)
(* line, a heading and an info-box tag                                     *)
(***************************************************************************)
MaxFragsTwice == 4
FragsTwice ==
    {Fence \o << NL, "a", NL >>, Fence, << NL >>, << "x" >>, << "-", " ", "a", NL >>,
     << "#", " ", "h", NL >>, TagTIP \o << NL >>}
InitTwice == InitWith({Transform(x) : x \in TextsOf(FragsTwice, MaxFragsTwice)})
SpecTwice == InitTwice /\ [][Next]_vars

\* the paragraph wrappers of the text
ParagraphCount(s) == Count(s, PageTpl.ParaOpen[1])
\* no paragraph wrapper opens inside an open one
RECURSIVE NoNestedParagraph(_, _, _)
NoNestedParagraph(s, i, open) ==
    IF i > Len(s) THEN TRUE
    ELSE IF s[i] = PageTpl.ParaOpen[1] THEN ~open /\ NoNestedParagraph(s, i + 1, TRUE)
    ELSE IF s[i] = PageTpl.ParaClose[1] THEN NoNestedParagraph(s, i + 1, FALSE)
    ELSE NoNestedParagraph(s, i + 1, open)

\* C16: a call on the text a first call returned wraps no paragraph the
\* first call did not wrap, and nests no paragraph wrapper in another
C16_NoDoubleWrap ==
    pc = "done" =>
        /\ ParagraphCount(ret) <= ParagraphCount(input)
        /\ NoNestedParagraph(ret, 1, FALSE)

(***************************************************************************)
(* C17: save_status is called with a record of next_day up to MaxDay + 1,  *)
(* with no status file or with the file of a record of next_day up to      *)
(* MaxDay                                                                  *)
(***************************************************************************)
MaxDay == 3
StatusFileOf(st) == [exists |-> TRUE, data |-> Dump(st)]
InitStatus ==
    /\ input = << >>
    /\ pc = "idle"
    /\ html = << >>
    /\ stage_in = << >>
    /\ code_blocks = << >>
    /\ code_counter = 0
    /\ lines = << >>
    /\ line_no = 1
    /\ in_bullet_list = FALSE
    /\ in_numbered_list = FALSE
    /\ result = << >>
    /\ html_content = << >>
    /\ ret = << >>
    /\ status_file \in {NoFile} \cup {StatusFileOf([next_day |-> d]) : d \in 1..MaxDay}
    /\ temp_file = NoFile
    /\ status \in {[next_day |-> d] : d \in 1..(MaxDay + 1)}
    /\ save_pc = "open"
    /\ previous = status_file
    /\ loaded = DefaultStatus
    /\ MainIdle
SpecStatus == InitStatus /\ [][NextStatus]_vars

\* C17: from the call of save_status on, whether it returns or the process
\* stops in it, the status path holds the complete previous record or the
\* complete new one, and the load_status of the next run returns one of the
\* two
C17_StatusFileAlwaysComplete ==
    previous.exists =>
        /\ status_file \in {previous, StatusFileOf(status)}
        /\ save_pc = "loaded" => loaded \in {Loads(Strip(previous.data)).value, status}

(***************************************************************************)
(* C18: texts of info-box tag lines, lines of text and newlines            *)
(***************************************************************************)
MaxFragsInfo == 4
FragsInfo ==
    {TagTIP \o << NL >>, TagWARNING \o << NL >>, << "a" >>, << "b", NL >>, << NL >>}
InitInfo == InitWith(TextsOf(FragsInfo, MaxFragsInfo))
SpecInfo == InitInfo /\ [][Next]_vars

\* the info-box tags with the block of each
InfoKinds ==
    { [tag |-> TagTIP, open |-> InfoTpl.InfoOpenTIP, close |-> InfoTpl.InfoCloseTIP],
      [tag |-> TagWARNING, open |-> InfoTpl.InfoOpenWARNING, close |-> InfoTpl.InfoCloseWARNING],
      [tag |-> TagBEST_PRACTICE, open |-> InfoTpl.InfoOpenBEST_PRACTICE,
       close |-> InfoTpl.InfoCloseBEST_PRACTICE],
      [tag |-> TagKEY_TAKEAWAY, open |-> InfoTpl.InfoOpenKEY_TAKEAWAY,
       close |-> InfoTpl.InfoCloseKEY_TAKEAWAY] }
IsInfoTagLine(l) == \E k \in InfoKinds : l = k.tag
\* a line of a region: not blank, and with no bracket
IsRegionLine(l) == l # << >> /\ \A c \in 1..Len(l) : l[c] # "["
\* every bracket of the text belongs to a tag that stands alone on its line
TagsStandAlone(ls) ==
    \A n \in 1..Len(ls) : (\E c \in 1..Len(ls[n]) : ls[n][c] = "[") => IsInfoTagLine(ls[n])
\* the last line of the run of region lines after line i
RECURSIVE RegionLast(_, _)
RegionLast(ls, i) ==
    IF i < Len(ls) /\ IsRegionLine(ls[i + 1]) THEN RegionLast(ls, i + 1) ELSE i
\* the lines after the info-box stage: a tag line and the region lines after
\* it are one block around those lines, every other line is left as it is
RECURSIVE InfoLines(_, _)
InfoLines(ls, i) ==
    IF i > Len(ls) THEN << >>
    ELSE IF IsInfoTagLine(ls[i]) /\ RegionLast(ls, i) > i
    THEN LET k == CHOOSE kind \in InfoKinds : kind.tag = ls[i]
             j == RegionLast(ls, i)
         IN  << k.open \o Join(SubSeq(ls, i + 1, j), << NL >>) \o k.close >>
             \o InfoLines(ls, j + 1)
    ELSE << ls[i] >> \o InfoLines(ls, i + 1)

\* C18: an info-box tag alone on its line and all the non-blank lines right
\* after it, up to a blank line, a bracket tag or the end, are replaced by
\* one block whose body holds all those lines; the text after a blank line
\* stays outside
C18_RegionIsAllLines ==
    (pc = "table" /\ TagsStandAlone(LinesOf(stage_in)))
        => html = Join(InfoLines(LinesOf(stage_in), 1), << NL >>)

(***************************************************************************)
(* C19: texts of a [PROS] tag line, a [CONS] tag line, a bullet line, a    *)
(* bullet line of a blank and a newline                                    *)
(***************************************************************************)
MaxFragsGrid == 5
FragsGrid ==
    {TagPROS \o << NL >>, TagCONS \o << NL >>, << "-", " ", "a", NL >>,
     << "-", " ", " ", NL >>, << NL >>}
InitGrid == InitWith(TextsOf(FragsGrid, MaxFragsGrid))
SpecGrid == InitGrid /\ [][Next]_vars

\* the first line after line j that is not blank (Len(ls) + 1: none)
RECURSIVE AfterBlanks(_, _)
AfterBlanks(ls, j) ==
    IF j < Len(ls) /\ ls[j + 1] = << >> THEN AfterBlanks(ls, j + 1) ELSE j + 1
\* the grid with a column for the texts of ps and a column for those of cs
GridOf(ps, cs) ==
    ProsConsTpl.GridOpen
    \o ProsConsTpl.ProsColumnOpen \o ProsItems(ps) \o ProsConsTpl.ColumnClose
    \o ProsConsTpl.ConsColumnOpen \o ConsItems(cs) \o ProsConsTpl.ColumnClose
    \o ProsConsTpl.GridClose
\* line i is a [PROS] tag line with bullet lines, blank lines or none, a
\* [CONS] line and bullet lines
IsProsConsAt(ls, i) ==
    /\ EndsWith(ls[i], TagPROS) /\ i < Len(ls) /\ IsBulletLineText(ls[i + 1])
    /\ LET c == AfterBlanks(ls, BulletRunLast(ls, i + 1))
       IN  c < Len(ls) /\ ls[c] = TagCONS /\ IsBulletLineText(ls[c + 1])
\* the lines the pros/cons stage is to leave of the lines ls, from line i on:
\* the two regions become one grid, the bullets of each in its column, and
\* the grid takes the place of the tag; blank bullets are kept when all is
\* TRUE
RECURSIVE ProsConsLines(_, _, _)
ProsConsLines(ls, i, all) ==
    IF i > Len(ls) THEN << >>
    ELSE IF IsProsConsAt(ls, i)
    THEN LET j == BulletRunLast(ls, i + 1)
             c == AfterBlanks(ls, j)
             k == BulletRunLast(ls, c + 1)
             next == IF k < Len(ls) /\ ls[k + 1] = << >> THEN k + 2 ELSE k + 1
         IN  << SubSeq(ls[i], 1, Len(ls[i]) - Len(TagPROS))
                \o GridOf(EntryTexts(ls, i + 1, j, all), EntryTexts(ls, c + 1, k, all)) >>
             \o ProsConsLines(ls, next, all)
    ELSE << ls[i] >> \o ProsConsLines(ls, i + 1, all)

\* C19 as stated: the bullet lines of a [PROS] region and of the [CONS]
\* region after it become one grid that holds every bullet of each region
\* in its column, in order, and none of them is left outside
C19_EveryBulletInGrid ==
    pc = "faq" => html = Join(ProsConsLines(LinesOf(stage_in), 1, TRUE), << NL >>)

\* C19 amended: the grid holds, in order and each in its column, every
\* bullet of the two regions whose text after the marker is not blank; a
\* bullet line of blanks gives no item, and no line of a region is left
\* outside the grid
C19_EveryNonBlankBulletInGrid ==
    pc = "faq" => html = Join(ProsConsLines(LinesOf(stage_in), 1, FALSE), << NL >>)

\* a pro, a blank line and a con became one grid of two columns
C19_Witness ==
    /\ pc = "faq"
    /\ stage_in = TagPROS \o << NL, "-", " ", "a", NL, NL >> \o TagCONS \o << NL, "-", " ", "a", NL >>
    /\ html = GridOf(<< << "a" >> >>, << << "a" >> >>)

(***************************************************************************)
(* C20: texts of a [FAQ] tag line, a question line, an answer line, a line *)
(* of text and a newline                                                   *)
(***************************************************************************)
MaxFragsFaq == 5
FragsFaq ==
    {TagFAQ \o << NL >>, << "Q", ":", " ", "a", NL >>, << "A", ":", " ", "b", NL >>,
     << "c", NL >>, << NL >>}
InitFaq == InitWith(TextsOf(FragsFaq, MaxFragsFaq))
SpecFaq == InitFaq /\ [][Next]_vars

IsQuestionLine(l) == Len(l) >= 4 /\ StartsWith(l, << "Q", ":", " " >>)
IsAnswerLine(l) == StartsWith(l, << "A", ":", " " >>)
\* the text is a [FAQ] tag line and a region that starts with a question
\* line, where every question line is followed by an answer line
IsFaqOfPairs(s) ==
    /\ StartsWith(s, TagFAQ \o << NL >>)
    /\ LET ls == LinesOf(SubSeq(s, Len(TagFAQ) + 2, Len(s)))
       IN  /\ IsQuestionLine(ls[1])
           /\ \A n \in 1..Len(ls) :
                  IsQuestionLine(ls[n]) => n < Len(ls) /\ IsAnswerLine(ls[n + 1])
\* the last line of the answer that starts at line n: the line before the
\* next question line, or the last line of the region
RECURSIVE AnswerLast(_, _)
AnswerLast(ls, n) ==
    IF n < Len(ls) /\ ~IsQuestionLine(ls[n + 1]) THEN AnswerLast(ls, n + 1) ELSE n
\* the question lines of the region, in order
QuestionLines(ls) ==
    LET qs == {n \in 1..Len(ls) : IsQuestionLine(ls[n])}
    IN  [k \in 1..Cardinality(qs) |->
            CHOOSE n \in qs : Cardinality({m \in qs : m < n}) = k - 1]
\* one card for each question line, with the lines of its answer
FaqOfPairs(ls) ==
    LET qs == QuestionLines(ls)
    IN  FaqTpl.FaqOpen
        \o Concat([k \in 1..Len(qs) |->
               FaqCard(k - 1, Len(qs), SubSeq(ls[qs[k]], 4, Len(ls[qs[k]])),
                       Join(<< SubSeq(ls[qs[k] + 1], 4, Len(ls[qs[k] + 1])) >>
                            \o SubSeq(ls, qs[k] + 2, AnswerLast(ls, qs[k] + 1)), << NL >>))])
        \o FaqTpl.FaqClose

\* C20: in a [FAQ] region every question line followed by an answer line
\* gives one card, in order, the card of number k in the colour k mod 3;
\* the answer of a card is the answer line and the lines after it up to the
\* next question line or the end of the region
C20_CardPerQuestion ==
    (pc = "timeline" /\ IsFaqOfPairs(stage_in))
        => html = FaqOfPairs(LinesOf(SubSeq(stage_in, Len(TagFAQ) + 2, Len(stage_in))))

(***************************************************************************)
(* C21: texts of a [FAQ] tag line, a question with its answer, an info     *)
(* box, a heading of level 2, a [PROS] tag line and a line of text         *)
(***************************************************************************)
MaxFragsRegion == 4
FragsRegion ==
    {TagFAQ \o << NL >>, << "Q", ":", " ", "a", NL, "A", ":", " ", "b", NL >>,
     TagTIP \o << NL, "c", NL >>, << "#", "#", " ", "h", NL >>, TagPROS \o << NL >>,
     << "x", NL >>}
InitRegion == InitWith(TextsOf(FragsRegion, MaxFragsRegion))
SpecRegion == InitRegion /\ [][Next]_vars

\* a line that bounds a [FAQ] region: a heading line or a bracket tag line
IsFaqBoundaryLine(l) == StartsWith(l, << "#", "#" >>) \/ StartsWith(l, << "[" >>)
\* the first boundary line from line n on, or the line after the last one
RECURSIVE FaqBoundary(_, _)
FaqBoundary(ls, n) ==
    IF n > Len(ls) \/ IsFaqBoundaryLine(ls[n]) THEN n ELSE FaqBoundary(ls, n + 1)
\* the text starts with a [FAQ] tag line followed by a question line
StartsWithFaq(s) ==
    LET ls == LinesOf(s)
    IN  Len(ls) >= 2 /\ ls[1] = TagFAQ /\ IsQuestionLine(ls[2])
\* the lines of the region of such a text, and the text from its boundary on
FaqRegionOf(s) ==
    LET ls == LinesOf(s)
    IN  Join(SubSeq(ls, 2, FaqBoundary(ls, 2) - 1), << NL >>)
FaqRestOf(s) ==
    LET ls == LinesOf(s)
    IN  Join(SubSeq(ls, FaqBoundary(ls, 2), Len(ls)), << NL >>)
\* a text as the FAQ stage leaves it
UpToFaq(t) == FaqSub(ProsConsSub(TableSub(InfoBoxes(CodeSub(t)))))

\* C21: the [FAQ] region ends at the next heading line, the next bracket tag
\* line or the end of the input: after the FAQ stage the text is the FAQ
\* block of the region's lines, followed (a newline may stand between) by
\* the text from the boundary on, converted as it is without the FAQ
C21_RegionEndsAtBoundary ==
    (pc = "timeline" /\ StartsWithFaq(input))
        => \E sep \in {<< >>, << NL >>} :
               html = ConvertFaq(FaqRegionOf(input)) \o sep \o UpToFaq(FaqRestOf(input))

(***************************************************************************)
(* C22: what the matches of the custom-block patterns consume              *)
(***************************************************************************)
\* the text holds a placeholder of an extracted code block, or a tag of
\* rendered HTML (the texts of the inputs are single characters)
HoldsReplaced(t) ==
    \/ \E k \in DOMAIN code_blocks : Occurrences(t, code_blocks[k].placeholder) >= 1
    \/ \E i \in 1..Len(t) : t[i] \in LtSyms \ {"<"}
\* the texts consumed by the matches at the spans sp of s
Consumed(s, sp) == {SubSeq(s, sp[k].s, sp[k].e - 1) : k \in DOMAIN sp}
\* the matches of the info-box pattern of a tag
InfoSpans(s, tag) == Spans([i \in 1..Len(s) |-> InfoMatchEnd(s, tag, i)], 1, Len(s))
\* the texts consumed by the four info-box substitutions, each applied to
\* the text the one before it left
InfoConsumed(s) ==
    LET s1 == InfoSub(s, TagTIP, InfoTpl.InfoOpenTIP, InfoTpl.InfoCloseTIP)
        s2 == InfoSub(s1, TagWARNING, InfoTpl.InfoOpenWARNING, InfoTpl.InfoCloseWARNING)
        s3 == InfoSub(s2, TagBEST_PRACTICE, InfoTpl.InfoOpenBEST_PRACTICE,
                      InfoTpl.InfoCloseBEST_PRACTICE)
    IN  Consumed(s, InfoSpans(s, TagTIP)) \cup Consumed(s1, InfoSpans(s1, TagWARNING))
        \cup Consumed(s2, InfoSpans(s2, TagBEST_PRACTICE))
        \cup Consumed(s3, InfoSpans(s3, TagKEY_TAKEAWAY))
\* the texts consumed by the matches of the stage that is about to run
ConsumedNow ==
    CASE pc = "info" -> InfoConsumed(html)
      [] pc = "table" -> Consumed(html, TableSpans(html))
      [] pc = "proscons" -> Consumed(html, ProsConsSpans(html))
      [] pc = "faq" -> Consumed(html, FaqSpans(html))
      [] pc = "timeline" -> Consumed(html, TimelineSpans(html))
      [] OTHER -> {}

\* C22: the text consumed by a match of a custom-block pattern (info box,
\* table, pros/cons, FAQ, timeline) holds no code-block placeholder and no
\* HTML rendered by an earlier conversion
C22_MatchesAvoidReplaced == \A t \in ConsumedNow : ~HoldsReplaced(t)

(***************************************************************************)
(* C23: texts of bullet lines with either marker, numbered lines, lines of *)
(* plain text and blank lines                                              *)
(***************************************************************************)
MaxFragsItems == 4
FragsItems ==
    {<< "-", " ", "a", NL >>, << "*", " ", "b", NL >>, << "1", ".", " ", "c", NL >>,
     << "x", NL >>, << NL >>}
InitItems == InitWith(TextsOf(FragsItems, MaxFragsItems))
SpecItems == InitItems /\ [][Next]_vars

\* the kind of a line: a bullet item, a numbered item, or no item
KindOfLine(l) ==
    IF Len(l) >= 2 /\ l[1] \in {"-", "*"} /\ l[2] = " " THEN "ul"
    ELSE IF Len(l) >= 3 /\ IsDigit(l[1]) /\ l[2] = "." /\ l[3] = " " THEN "ol"
    ELSE "none"
\* the kind of line i of ls; there is no item before the first line and
\* after the last
KindAt(ls, i) == IF i \in 1..Len(ls) THEN KindOfLine(ls[i]) ELSE "none"
ListOpenTag(kind) == IF kind = "ul" THEN ListTpl.UlOpen ELSE ListTpl.OlOpen
ListCloseTag(kind) == IF kind = "ul" THEN ListTpl.UlClose ELSE ListTpl.OlClose
\* the output lines of line i: the closing tag of the list of the line
\* before when the kind changes, the opening tag of its own list when the
\* line before is not of its kind, and its item or the line itself
ItemLinesAt(ls, i) ==
    LET k == KindAt(ls, i)
        b == KindAt(ls, i - 1)
    IN  (IF b # "none" /\ b # k THEN << ListCloseTag(b) >> ELSE << >>)
        \o (IF k # "none" /\ b # k THEN << ListOpenTag(k) >> ELSE << >>)
        \o (IF k = "ul" THEN << BulletLi(Strip(SubSeq(ls[i], 3, Len(ls[i])))) >>
            ELSE IF k = "ol" THEN << NumberedLi(Strip(SubSeq(ls[i], 4, Len(ls[i])))) >>
            ELSE << ls[i] >>)
\* the output lines of all the lines, and the closing tag of a list that
\* the last line leaves open
ItemLines(ls) ==
    Concat([i \in 1..Len(ls) |-> ItemLinesAt(ls, i)])
    \o (IF KindAt(ls, Len(ls)) # "none" THEN << ListCloseTag(KindAt(ls, Len(ls))) >> ELSE << >>)

\* C23: every line of the input that begins with "- " or "* " is a bullet
\* item and every line that begins with a digit, a dot and a space is a
\* numbered item in the text the list conversion leaves; consecutive items
\* of a kind share one list, a change of kind closes the open list and opens
\* a new one, and any other line closes the open list and stays as it is
C23_ItemPerListLine ==
    pc = "paragraphs" => html = Join(ItemLines(LinesOf(input)), << NL >>)

(***************************************************************************)
(* C24: texts of up to MaxBlocks blocks with one blank line between each:  *)
(* plain text, text that begins with bold, with italic or with a link, a   *)
(* table and a heading                                                     *)
(***************************************************************************)
MaxBlocks == 3
TextBlocks ==
    {<< "x" >>, << "*", "*", "a", "*", "*", " ", "b" >>, << "*", "a", "*", " ", "b" >>,
     << "[", "a", "]", "(", "u", ")", " ", "b" >>}
TableBlock ==
    << Pipe, "a", Pipe, "b", Pipe, NL, Pipe, "-", Pipe, "-", Pipe, NL, Pipe, "1", Pipe, "2", Pipe >>
HeadingBlock == << "#", "#", " ", "h" >>
Blocks == TextBlocks \cup {TableBlock, HeadingBlock}
BlockTexts == {Join(bs, << NL, NL >>) : bs \in UNION {[1..n -> Blocks] : n \in 1..MaxBlocks}}
InitBlocks == InitWith(BlockTexts)
SpecBlocks == InitBlocks /\ [][Next]_vars

\* the blocks of a text, and its bare text blocks
BlocksOf(s) == Split(s, << NL, NL >>)
IsBareText(b) == b # << >> /\ b[1] \notin {Pipe, "#"}
\* the inline markup of a block, converted
Inline(b) == Links(Italic(Bold(b)))
\* the styled paragraph of a block
StyledParagraph(b) == PageTpl.ParaOpen \o Inline(b) \o PageTpl.ParaClose

\* C24: every bare text block between blank lines is returned enclosed in a
\* styled paragraph tag, and the returned text holds one paragraph tag for
\* each bare text block, whatever inline markup the block begins with and
\* whatever block stands before the blank line
C24_BareTextWrapped ==
    pc = "done" =>
        LET bs == BlocksOf(input)
        IN  /\ \A k \in 1..Len(bs) :
                   IsBareText(bs[k]) => Occurrences(ret, StyledParagraph(bs[k])) >= 1
            /\ Occurrences(ret, PageTpl.ParaOpen)
                   = Cardinality({k \in 1..Len(bs) : IsBareText(bs[k])})

(***************************************************************************)
(* C25: what the paragraph wrappers of the returned text enclose           *)
(***************************************************************************)
\* the tags of inline markup, and the tags of the rendered blocks
InlineSyms == UNION {{InlineTpl[f][k] : k \in 1..Len(InlineTpl[f])} : f \in DOMAIN InlineTpl}
BlockSyms == LtSyms \ (InlineSyms \cup {"<", PageTpl.ParaOpen[1], PageTpl.ParaClose[1]})
\* no tag of a rendered block stands after a paragraph wrapper's opening
\* tag and before the closing tag that follows it
NoBlockInParagraph(s) ==
    \A i \in 1..Len(s) :
        s[i] \in BlockSyms =>
            LET ps == {j \in 1..(i - 1) : s[j] \in {PageTpl.ParaOpen[1], PageTpl.ParaClose[1]}}
            IN  ps = {} \/ s[CHOOSE j \in ps : \A m \in ps : m <= j] = PageTpl.ParaClose[1]

\* C25: in the returned text no block rendered by an earlier stage (code
\* block, info box, table, pros/cons grid, FAQ, timeline, heading, list) is
\* enclosed in a paragraph wrapper of the paragraph stage
C25_NoBlockWrapped ==
    pc = "done" => NoBlockInParagraph(SubSeq(ret, 2, Len(ret) - 1))

(***************************************************************************)
(* C26: the two flags of the line scan                                     *)
(***************************************************************************)
\* the list that the lines r leave open: the kind of the last list tag when
\* it is an opening tag
OpenListOf(r) ==
    LET ts == {j \in 1..Len(r) :
                  r[j] \in {ListTpl.UlOpen, ListTpl.UlClose, ListTpl.OlOpen, ListTpl.OlClose}}
        last == CHOOSE j \in ts : \A m \in ts : m <= j
    IN  IF ts = {} THEN "none"
        ELSE IF r[last] = ListTpl.UlOpen THEN "ul"
        ELSE IF r[last] = ListTpl.OlOpen THEN "ol"
        ELSE "none"

\* C26 as stated: the two flags are never both true, and both are false
\* when the scan is finished
C26_FlagsFalseAtEnd ==
    /\ ~(in_bullet_list /\ in_numbered_list)
    /\ pc = "paragraphs" => ~in_bullet_list /\ ~in_numbered_list

\* C26: the two flags are never both true; during the scan each flag is
\* true exactly when the lines emitted so far leave a list of its kind
\* open; when the scan is finished the emitted lines leave no list open: the
\* closing tag of a list that was open at the end of the input is emitted
\* (its flag keeps the value true)
C26_OneListOpenAndClosed ==
    /\ ~(in_bullet_list /\ in_numbered_list)
    /\ pc = "scan" =>
           /\ in_bullet_list <=> OpenListOf(result) = "ul"
           /\ in_numbered_list <=> OpenListOf(result) = "ol"
    /\ pc = "paragraphs" => OpenListOf(result) = "none"

\* the scan has finished a text that goes from a bullet list to a numbered
\* list and ends in it: the closing tag is the last line, the flag is true
C26_Witness ==
    /\ pc = "paragraphs"
    /\ input = << "-", " ", "a", NL, "1", ".", " ", "b" >>
    /\ in_numbered_list /\ ~in_bullet_list
    /\ result[Len(result)] = ListTpl.OlClose

(***************************************************************************)
(* C27: texts of a [PROS]/[CONS] pair, a [FAQ] region of one pair, a       *)
(* timeline of one bullet, a bullet line, a blank line and a code fence    *)
(* that holds italic markup, each at most once in a text                   *)
(***************************************************************************)
MaxFragsOrder == 4
PairFrag == TagPROS \o << NL, "-", " ", "a", NL >> \o TagCONS \o << NL, "-", " ", "b", NL >>
FaqFrag == TagFAQ \o << NL, "Q", ":", " ", "a", NL, "A", ":", " ", "b", NL >>
FenceFrag == Fence \o << NL, "*", "x", "*", NL >> \o Fence \o << NL >>
TimelineFrag == TagTIMELINE \o << NL, "-", " ", "t", NL >>
FragsOrder == {PairFrag, FaqFrag, TimelineFrag, << "-", " ", "t", NL >>, << NL >>, FenceFrag}
\* every concatenation of at most MaxFragsOrder different fragments
OrderTexts ==
    {Concat(fs) : fs \in {g \in SeqsUpTo(FragsOrder, MaxFragsOrder) :
                              \A i, j \in DOMAIN g : i # j => g[i] # g[j]}}
InitOrder == InitWith(OrderTexts)
SpecOrder == InitOrder /\ [][Next]_vars

\* the stages in the order of the claim, by the position the call is at
\* before each of them ("lists" and "scan": the list conversion)
StageOrder ==
    << "code", "info", "table", "proscons", "faq", "timeline", "headings", "bold", "italic",
       "links", "lists", "scan", "paragraphs", "restore", "return", "done" >>
\* a step goes from a stage to the next one, or stays in the line scan
OrderStep ==
    \/ \E k \in 1..(Len(StageOrder) - 1) : pc = StageOrder[k] /\ pc' = StageOrder[k + 1]
    \/ pc = "scan" /\ pc' = "scan"
\* the text the timeline stage is about to consume holds nothing rendered
\* from a [PROS]/[CONS] pair or from a [FAQ] region
TimelineConsumesOwnBullets ==
    \A t \in Consumed(html, TimelineSpans(html)) : \A i \in 1..Len(t) : t[i] \notin LtSyms \ {"<"}

\* C27: the stages run in the order code fences, info boxes, tables,
\* pros/cons, FAQ, timeline, headings, bold, italic, links, lists,
\* paragraphs, restoration, container, each on the text the one before it
\* left; the timeline stage consumes no text of a [PROS]/[CONS] pair or of a
\* [FAQ] region, and the code put back by the restoration holds its markup
\* unconverted
C27_StagesInOrder ==
    /\ [][OrderStep]_vars
    /\ [](/\ pc = "timeline" => html = UpToFaq(input) /\ TimelineConsumesOwnBullets
          /\ pc = "headings" => html = TimelineSub(stage_in) /\ stage_in = UpToFaq(input)
          /\ pc = "done" => ret = Transform(input) /\ Occurrences(ret, InlineTpl.EmOpen) = 0)

\* the timeline stage has run on a text where a pair, a FAQ region and a
\* timeline follow each other: one grid, one FAQ block, one timeline
C27_Witness ==
    /\ pc = "headings"
    /\ input = PairFrag \o FaqFrag \o TimelineFrag
    /\ html = ConvertProsCons(<< "-", " ", "a", NL >>, << "-", " ", "b" >>) \o << NL >>
              \o ConvertFaq(<< "Q", ":", " ", "a", NL, "A", ":", " ", "b", NL >>)
              \o ConvertTimeline(<< "-", " ", "t", NL >>)

(***************************************************************************)
(* C28, C29: runs of main for a topics file of up to MaxTopics topics of   *)
(* the days 1..MaxDay in any order, and a status file that is missing,     *)
(* cut short, or holds a next_day of 1..MaxDay + 1                         *)
(***************************************************************************)
MaxTopics == 2
InitMain ==
    /\ input = << >>
    /\ pc = "idle"
    /\ html = << >>
    /\ stage_in = << >>
    /\ code_blocks = << >>
    /\ code_counter = 0
    /\ lines = << >>
    /\ line_no = 1
    /\ in_bullet_list = FALSE
    /\ in_numbered_list = FALSE
    /\ result = << >>
    /\ html_content = << >>
    /\ ret = << >>
    /\ status_file \in {NoFile, [exists |-> TRUE, data |-> << "{" >>]}
                       \cup {StatusFileOf([next_day |-> d]) : d \in 1..(MaxDay + 1)}
    /\ temp_file = NoFile
    /\ status = DefaultStatus
    /\ save_pc = "idle"
    /\ previous = NoFile
    /\ loaded = DefaultStatus
    /\ topics \in UNION {[1..n -> 1..MaxDay] : n \in 1..MaxTopics}
    /\ configured \in BOOLEAN
    /\ main_pc = "start"
    /\ topic = 0
    /\ attempt = 0
    /\ sent = << >>
    /\ success = "none"
    /\ log = << >>
SpecMain == InitMain /\ [][NextMain]_vars


\* C28: a run of main that fails (no topic, no content, publish_to_blogger
\* returned False) leaves a persisted next_day that is not past the day of
\* the topic it tried; a run that succeeds leaves the day of its topic plus
\* one; and the run after a failed run selects the same topic again
C28_FailedRunKeepsTopic ==
    /\ \A i \in DOMAIN log :
           IF log[i].ok THEN log[i].next_day = topics[log[i].topic] + 1
           ELSE log[i].topic # 0 => log[i].next_day <= topics[log[i].topic]
    /\ \A i \in DOMAIN log :
           (i + 1 \in DOMAIN log /\ ~log[i].ok) => log[i + 1].topic = log[i].topic

\* the outcomes of a POST request that the server answered with success
Succeeded == {"ok", "ok_unread"}

\* C29: a call of publish_to_blogger sends at most three POST requests, none
\* after a response with a status of success and none after a response with
\* a status 4xx, and returns True exactly when a request succeeded
C29_PostsBounded ==
    /\ Len(sent) <= MaxRetries
    /\ \A i \in 1..(Len(sent) - 1) : sent[i] \notin Succeeded \cup {"client_error"}
    /\ success # "none" => (success = "true" <=> \E i \in DOMAIN sent : sent[i] \in Succeeded)

====
